---------------------------- MODULE Spec2Model ----------------------------
(***************************************************************************)
(* MIHCSME -> OMERO annotation synchronisation.                            *)
(*                                                                         *)
(* The model follows original_scripts/src/omero_metadata_uploader.py       *)
(* (annotate_omero_object and the functions it calls) and the OMERO script *)
(* scripts/Upload_MIHCSME_Metadata.py (main_loop).  Text that the code     *)
(* inspects character by character (namespaces, well names) is a sequence  *)
(* of one-character strings; text that is only compared for equality       *)
(* (plate names, condition keys and values) is a TLA+ string.              *)
(***************************************************************************)
EXTENDS Integers, Sequences, FiniteSets, TLC

\* ------------------------------------------------------------------ bounds
\* Longest list of target ids handed to the script.
MaxTargets == 2
\* Longest AssayConditions table (rows) of a document.
MaxRows == 2
\* Most remote calls (annotation create / delete) that fail in one run.
MaxFaults == 1

\* ----------------------------------------------------------------- strings
UpperLetters ==
  <<"A","B","C","D","E","F","G","H","I","J","K","L","M",
    "N","O","P","Q","R","S","T","U","V","W","X","Y","Z">>
LowerLetters ==
  <<"a","b","c","d","e","f","g","h","i","j","k","l","m",
    "n","o","p","q","r","s","t","u","v","w","x","y","z">>
Digits == <<"0","1","2","3","4","5","6","7","8","9">>

\* Python's None, as the result of a function that otherwise returns text.
None == <<"<None>">>
\* pandas' NaN: the value of an absent cell.
NaN == "<NaN>"

IndexOf(seq, c) == CHOOSE i \in 1..Len(seq) : seq[i] = c
IsIn(seq, c) == \E i \in 1..Len(seq) : seq[i] = c

\* str.upper(), one character
UpperChar(c) == IF IsIn(LowerLetters, c) THEN UpperLetters[IndexOf(LowerLetters, c)] ELSE c
\* str.upper()
Upper(s) == [i \in 1..Len(s) |-> UpperChar(s[i])]

\* str.strip(): leading and trailing blanks removed
RECURSIVE LStrip(_)
LStrip(s) == IF s # <<>> /\ Head(s) = " " THEN LStrip(Tail(s)) ELSE s
RECURSIVE RStrip(_)
RStrip(s) == IF s # <<>> /\ s[Len(s)] = " " THEN RStrip(SubSeq(s, 1, Len(s) - 1)) ELSE s
Strip(s) == RStrip(LStrip(s))

\* str.startswith(prefix)
StartsWith(s, prefix) ==
  /\ Len(prefix) <= Len(s)
  /\ SubSeq(s, 1, Len(prefix)) = prefix

IsDigits(s) == s # <<>> /\ \A i \in 1..Len(s) : IsIn(Digits, s[i])
RECURSIVE DigitsValue(_)
DigitsValue(s) ==
  IF s = <<>> THEN 0
  ELSE 10 * DigitsValue(SubSeq(s, 1, Len(s) - 1)) + (IndexOf(Digits, s[Len(s)]) - 1)

\* int(text) over letters, digits and blanks: surrounding blanks are ignored,
\* anything but a non-empty run of digits raises ValueError.
RaisesValueError(s) == ~IsDigits(Strip(s))
PyInt(s) == DigitsValue(Strip(s))

RECURSIVE Decimal(_)
Decimal(n) == IF n < 10 THEN <<Digits[n + 1]>> ELSE Decimal(n \div 10) \o <<Digits[(n % 10) + 1]>>
\* f"{n:d}": the column written without padding.
Format02d_Unpadded(n) == Decimal(n)

\* f"{n:02d}" for n >= 0
Format02d(n) == IF n < 10 THEN <<"0">> \o Decimal(n) ELSE Decimal(n)

\* The normalisation that takes the column for a 0-based index.
normalize_well_name_OneBased(well_name) ==
  IF well_name = <<>> THEN None
  ELSE LET name == Upper(Strip(well_name)) IN
       IF Len(name) < 2 THEN None
       ELSE IF RaisesValueError(Tail(name)) THEN None
            ELSE <<name[1]>> \o Format02d(PyInt(Tail(name)) + 1)

\* normalize_well_name: "A1", "a01" -> "A01"; None when it cannot be read
normalize_well_name(well_name) ==
  IF well_name = <<>> THEN None
  ELSE LET name == Upper(Strip(well_name)) IN
       IF Len(name) < 2 THEN None
       ELSE LET row_letter == name[1]
                col_part == Tail(name)
            IN IF RaisesValueError(col_part) THEN None
               ELSE <<row_letter>> \o Format02d(PyInt(col_part))

\* The name derived with the column taken as it is, 0-based.
OmeroWellName_ZeroBased(row, col) == <<UpperLetters[row + 1]>> \o Format02d(col)

\* The name the well loop derives from a remote well's 0-based (row, column).
OmeroWellName(row, col) == <<UpperLetters[row + 1]>> \o Format02d(col + 1)

\* well_coord_to_name(row, col, rows, cols): None outside the grid.
well_coord_to_name(row, col, rows, cols) ==
  IF ~(0 <= row /\ row < rows /\ 0 <= col /\ col < cols) THEN None
  ELSE <<UpperLetters[row + 1]>> \o Format02d(col + 1)

\* --------------------------------------------------------- configuration
SHEET_INVESTIGATION ==
  <<"I","n","v","e","s","t","i","g","a","t","i","o","n",
    "I","n","f","o","r","m","a","t","i","o","n">>
SHEET_STUDY == <<"S","t","u","d","y","I","n","f","o","r","m","a","t","i","o","n">>
SHEET_ASSAY == <<"A","s","s","a","y","I","n","f","o","r","m","a","t","i","o","n">>
SHEET_CONDITIONS == <<"A","s","s","a","y","C","o","n","d","i","t","i","o","n","s">>
DEFAULT_NS_BASE == <<"M","I","H","C","S","M","E">>
Sep == <<"/">>

\* ------------------------------------------------- the remote repository
\* Two screens; screen 1 holds plates 11 and 12, screen 2 holds plate 13.
\* No object has id MissingId.
ScreenIds == {1, 2}
PlateIds == {11, 12, 13}
MissingId == 9

\* screen.listChildren(), in the order the server lists the plates
ScreenPlates(screen_id) == IF screen_id = 1 THEN <<11, 12>> ELSE <<13>>
\* plate.getName()
PlateName(plate_id) ==
  CASE plate_id = 11 -> "Plate1"
    [] plate_id = 12 -> "Plate2"
    [] OTHER -> "Plate3"
\* plate.listChildren(): each well's id and 0-based row and column, in the
\* order the server lists them.  Plate 11 holds A01 and A02, plate 12 holds
\* A01, plate 13 holds B01.
PlateWells(plate_id) ==
  CASE plate_id = 11 -> << [id |-> 101, row |-> 0, column |-> 0],
                           [id |-> 102, row |-> 0, column |-> 1] >>
    [] plate_id = 12 -> << [id |-> 103, row |-> 0, column |-> 0] >>
    [] OTHER -> << [id |-> 104, row |-> 1, column |-> 0] >>

Range(seq) == {seq[i] : i \in 1..Len(seq)}
WellIds(plate_id) == {w.id : w \in Range(PlateWells(plate_id))}

\* conn.getObject(type, id) finds the object
ObjectExists(otype, oid) ==
  CASE otype = "Screen" -> oid \in ScreenIds
    [] otype = "Plate" -> oid \in PlateIds
    [] OTHER -> \E p \in PlateIds : oid \in WellIds(p)

Obj(otype, oid) == [otype |-> otype, oid |-> oid]

\* ------------------------------------------------------------ annotations
\* One remote annotation: its opaque id, the object it hangs on, its
\* namespace and its key/value pairs.  kind tells what getNs gives:
\* "str" a string (ns, possibly empty), "none" None (e.g. a file
\* attachment), "noattr" the annotation has no getNs at all.
Ann(id, otype, oid, kind, ns, kv) ==
  [id |-> id, otype |-> otype, oid |-> oid, kind |-> kind, ns |-> ns, kv |-> kv]
EmptyKV == [k \in {} |-> ""]

\* obj.listAnnotations()
listAnnotations(store, otype, oid) == {a \in store : a.otype = otype /\ a.oid = oid}

\* An annotation without its id: what two runs can be compared by.
ContentOf(a) == [otype |-> a.otype, oid |-> a.oid, kind |-> a.kind, ns |-> a.ns, kv |-> a.kv]
\* The annotations of a store by content, each with the number of copies.
ContentBag(store) ==
  LET contents == {ContentOf(a) : a \in store}
  IN [c \in contents |-> Cardinality({a \in store : ContentOf(a) = c})]

\* pd.notna filter of a key/value mapping: {k: v for k, v in d.items() if pd.notna(v)}
NotNa(d) == [k \in {x \in DOMAIN d : d[x] # NaN} |-> d[k]]

\* ezomero.post_map_annotation: creates one annotation on the object under
\* ns; fails (raises, or returns no id) when the call fails or the object
\* does not exist.
post_map_annotation(st, obj_type, obj_id, kv_pairs, ns, fails) ==
  IF fails \/ ~ObjectExists(obj_type, obj_id)
  THEN [ok |-> FALSE, anns |-> st.anns, nextId |-> st.nextId]
  ELSE [ok |-> TRUE,
        anns |-> st.anns \cup {Ann(st.nextId, obj_type, obj_id, "str", ns, kv_pairs)},
        nextId |-> st.nextId + 1]

\* One create call: the object and the namespace it writes under.
Call(obj_type, obj_id, ns) == [otype |-> obj_type, oid |-> obj_id, ns |-> ns]

RECURSIVE ApplyGroupsLoop(_, _, _, _, _, _)
\* The loop over the groups that a failed write ends.
ApplyGroupsLoop_StopsOnFailure(st, obj_type, obj_id, groups, namespace, failing) ==
  IF groups = <<>> \/ ~st.success THEN st
  ELSE LET g == Head(groups)
           group_namespace == namespace \o Sep \o g.group
           kv_pairs == NotNa(g.data)
           r == post_map_annotation(st, obj_type, obj_id, kv_pairs, group_namespace,
                                    Call(obj_type, obj_id, group_namespace) \in failing)
           next == IF DOMAIN kv_pairs = {} THEN st
                   ELSE [success |-> st.success /\ r.ok, anns |-> r.anns, nextId |-> r.nextId]
       IN ApplyGroupsLoop(next, obj_type, obj_id, Tail(groups), namespace, failing)

\* The loop over the groups of a nested sheet: one annotation per group under
\* namespace/group_name; a failed write clears success and the loop goes on.
ApplyGroupsLoop(st, obj_type, obj_id, groups, namespace, failing) ==
  IF groups = <<>> THEN st
  ELSE LET g == Head(groups)
           group_namespace == namespace \o Sep \o g.group
           kv_pairs == NotNa(g.data)
           r == post_map_annotation(st, obj_type, obj_id, kv_pairs, group_namespace,
                                    Call(obj_type, obj_id, group_namespace) \in failing)
           next == IF DOMAIN kv_pairs = {} THEN st
                   ELSE [success |-> st.success /\ r.ok, anns |-> r.anns, nextId |-> r.nextId]
       IN ApplyGroupsLoop(next, obj_type, obj_id, Tail(groups), namespace, failing)

\* _apply_metadata_to_object.  nested says whether the values of
\* metadata_dict are themselves mappings (an information sheet: a sequence
\* of [group, data]) or scalars (a well's conditions: key -> value).
\* failing holds the create calls that fail.
apply_metadata_to_object(st, obj_type, obj_id, metadata_dict, nested, namespace, failing) ==
  IF DOMAIN metadata_dict = {} THEN [success |-> TRUE, anns |-> st.anns, nextId |-> st.nextId]
  ELSE IF nested
       THEN ApplyGroupsLoop([success |-> TRUE, anns |-> st.anns, nextId |-> st.nextId],
                            obj_type, obj_id, metadata_dict, namespace, failing)
       ELSE LET kv_pairs == NotNa(metadata_dict)
                r == post_map_annotation(st, obj_type, obj_id, kv_pairs, namespace,
                                         Call(obj_type, obj_id, namespace) \in failing)
            IN IF DOMAIN kv_pairs = {}
               THEN [success |-> TRUE, anns |-> st.anns, nextId |-> st.nextId]
               ELSE [success |-> r.ok, anns |-> r.anns, nextId |-> r.nextId]

\* ------------------------------------------------------------- deletion
\* The filter as a hierarchical match: the namespace itself or a path under it.
Skipped_Hierarchical(ann, namespace) ==
  /\ namespace # <<>>
  /\ ann.kind # "noattr"
  /\ ann.kind = "str" /\ ann.ns # <<>>
  /\ ~(ann.ns = namespace \/ StartsWith(ann.ns, namespace \o Sep))

\* _remove_object_annotations, the namespace filter: an annotation is
\* skipped only when a filter is given, the annotation has getNs, getNs gives
\* a non-empty string and that string does not start with the filter.
Skipped(ann, namespace) ==
  /\ namespace # <<>>
  /\ ann.kind # "noattr"
  /\ ann.kind = "str" /\ ann.ns # <<>>
  /\ ~StartsWith(ann.ns, namespace)

\* annotations_to_remove of one object
annotations_to_remove(store, object_type, object_id, namespace) ==
  {a \in listAnnotations(store, object_type, object_id) : ~Skipped(a, namespace)}

\* The removal that calls conn.deleteObjects with whatever list it built,
\* the empty one included.
remove_object_annotations_AlwaysCalls(store, object_type, object_id, namespace, raises) ==
  LET to_remove == annotations_to_remove(store, object_type, object_id, namespace)
  IN IF ~ObjectExists(object_type, object_id) THEN [count |-> 0, anns |-> store, called |-> FALSE]
     ELSE IF raises THEN [count |-> 0, anns |-> store, called |-> TRUE]
     ELSE [count |-> Cardinality(to_remove), anns |-> store \ to_remove, called |-> TRUE]

\* _remove_object_annotations: the count it returns, the store it leaves and
\* whether it called conn.deleteObjects.
\* raises: conn.deleteObjects raises (caught and logged: count stays 0).
remove_object_annotations(store, object_type, object_id, namespace, raises) ==
  LET to_remove == annotations_to_remove(store, object_type, object_id, namespace)
  IN IF ~ObjectExists(object_type, object_id) \/ to_remove = {}
     THEN [count |-> 0, anns |-> store, called |-> FALSE]
     ELSE IF raises THEN [count |-> 0, anns |-> store, called |-> TRUE]
     ELSE [count |-> Cardinality(to_remove), anns |-> store \ to_remove, called |-> TRUE]

\* The objects conn.deleteObjects has been called for, one more when r called it.
Called(delete_calls, r, object_type, object_id) ==
  IF r.called THEN delete_calls \cup {Obj(object_type, object_id)} ELSE delete_calls

\* The removal that does not descend into the wells.
RemoveWellsLoop_Skip(st, wells, namespace, failing) == st

\* The loop over a plate's wells in remove_screen_metadata / remove_plate_metadata.
RECURSIVE RemoveWellsLoop(_, _, _, _)
RemoveWellsLoop(st, wells, namespace, failing) ==
  IF wells = <<>> THEN st
  ELSE LET well_id == Head(wells).id
           r == remove_object_annotations(st.anns, "Well", well_id, namespace,
                                          Obj("Well", well_id) \in failing)
       IN RemoveWellsLoop([st EXCEPT !.anns = r.anns,
                                     !.well_annotations = @ + r.count,
                                     !.delete_calls = Called(@, r, "Well", well_id)],
                          Tail(wells), namespace, failing)

\* The plate and its wells: the body of remove_plate_metadata, and of the
\* plate loop of remove_screen_metadata.
RemovePlateAndWells(st, plate_id, namespace, failing) ==
  LET r == remove_object_annotations(st.anns, "Plate", plate_id, namespace,
                                     Obj("Plate", plate_id) \in failing)
  IN RemoveWellsLoop([st EXCEPT !.anns = r.anns, !.plate_annotations = @ + r.count,
                                !.delete_calls = Called(@, r, "Plate", plate_id)],
                     PlateWells(plate_id), namespace, failing)

RECURSIVE RemovePlatesLoop(_, _, _, _)
RemovePlatesLoop(st, plates, namespace, failing) ==
  IF plates = <<>> THEN st
  ELSE RemovePlatesLoop(RemovePlateAndWells(st, Head(plates), namespace, failing),
                        Tail(plates), namespace, failing)

RemovalStart(store) ==
  [screen_annotations |-> 0, plate_annotations |-> 0, well_annotations |-> 0,
   total_removed |-> 0, errors |-> FALSE, anns |-> store, delete_calls |-> {}]

\* remove_screen_metadata(conn, screen_id, namespace, delete_annotations=True)
remove_screen_metadata(store, screen_id, namespace, failing) ==
  IF ~ObjectExists("Screen", screen_id)
  THEN [RemovalStart(store) EXCEPT !.errors = TRUE]
  ELSE LET r == remove_object_annotations(store, "Screen", screen_id, namespace,
                                          Obj("Screen", screen_id) \in failing)
           st == RemovePlatesLoop([RemovalStart(r.anns) EXCEPT
                                     !.screen_annotations = r.count,
                                     !.delete_calls = Called(@, r, "Screen", screen_id)],
                                  ScreenPlates(screen_id), namespace, failing)
       IN [st EXCEPT !.total_removed =
             st.screen_annotations + st.plate_annotations + st.well_annotations]

\* The removal that goes through every plate of the screen the plate is in.
remove_plate_metadata_Siblings(store, plate_id, namespace, failing) ==
  IF ~ObjectExists("Plate", plate_id)
  THEN [RemovalStart(store) EXCEPT !.errors = TRUE]
  ELSE LET screen_id == CHOOSE x \in ScreenIds : plate_id \in Range(ScreenPlates(x))
           st == RemovePlatesLoop(RemovalStart(store), ScreenPlates(screen_id),
                                  namespace, failing)
       IN [st EXCEPT !.total_removed = st.plate_annotations + st.well_annotations]

\* remove_plate_metadata(conn, plate_id, namespace, delete_annotations=True)
remove_plate_metadata(store, plate_id, namespace, failing) ==
  IF ~ObjectExists("Plate", plate_id)
  THEN [RemovalStart(store) EXCEPT !.errors = TRUE]
  ELSE LET st == RemovePlateAndWells(RemovalStart(store), plate_id, namespace, failing)
       IN [st EXCEPT !.total_removed = st.plate_annotations + st.well_annotations]

\* The objects the removal step visits: the target and its descendants.
TargetTree(target_type, target_id) ==
  IF ~ObjectExists(target_type, target_id) THEN {}
  ELSE LET plates == IF target_type = "Screen" THEN Range(ScreenPlates(target_id))
                     ELSE {target_id}
       IN {Obj(target_type, target_id)}
          \cup {Obj("Plate", p) : p \in plates}
          \cup {Obj("Well", w) : w \in UNION {WellIds(p) : p \in plates}}

OnTree(store, tree) == {a \in store : Obj(a.otype, a.oid) \in tree}

\* ------------------------------------------------------------- documents
\* A document as convert_excel_to_json returns it: per information sheet
\* the groups in sheet order, each a mapping key -> value (NaN: empty
\* cell), and the AssayConditions rows, each with Plate, Well and its
\* other columns (conds).
G_DataOwner == <<"D","a","t","a","O","w","n","e","r">>
G_Study == <<"S","t","u","d","y">>
G_Biosample == <<"B","i","o","s","a","m","p","l","e">>
G_Library == <<"L","i","b","r","a","r","y">>
G_Assay == <<"A","s","s","a","y">>

NoSheets == [investigation |-> <<>>, study |-> <<>>, assay |-> <<>>]
FullSheets ==
  [investigation |-> << [group |-> G_DataOwner, data |-> ("First Name" :> "Jane")] >>,
   study |-> << [group |-> G_Study, data |-> ("Title" :> "Screen of X")],
                [group |-> G_Biosample, data |-> ("Organism" :> NaN)],
                [group |-> G_Library, data |-> ("Name" :> "L1")] >>,
   assay |-> << [group |-> G_Assay, data |-> (("Type" :> "HCS") @@ ("Size" :> NaN))] >>]
SheetChoices == {NoSheets, FullSheets}

Row(plate, well, conds) == [Plate |-> plate, Well |-> well, conds |-> conds]
\* The rows a table is drawn from, in sheet order: two spellings of well A01
\* of Plate1, a well Plate1 does not hold (B01), a row with an empty cell, a
\* well written with a blank and in lower case, and a well name that cannot
\* be read.
MasterTable ==
  << Row("Plate1", <<"A","1">>, ("Drug" :> "DMSO")),
     Row("Plate1", <<"B","0","1">>, ("Drug" :> "Taxol")),
     Row("Plate2", <<"a","0","1">>, ("Drug" :> NaN)),
     Row("Plate3", <<" ","b","1">>, ("Dose" :> "10")),
     Row("Plate1", <<"A","B">>, ("Drug" :> "DMSO")),
     Row("Plate1", <<"a","0","1">>, ("Dose" :> "5")) >>

\* The rows of MasterTable at the indices in chosen, in sheet order.
RECURSIVE PickRows(_, _)
PickRows(i, chosen) ==
  IF i > Len(MasterTable) THEN <<>>
  ELSE (IF i \in chosen THEN <<MasterTable[i]>> ELSE <<>>) \o PickRows(i + 1, chosen)

SeqsUpTo(S, n) == UNION {[1..k -> S] : k \in 0..n}
Documents ==
  {[sheets |-> sh, conditions |-> PickRows(1, chosen)] :
     sh \in SheetChoices,
     chosen \in {c \in SUBSET (1..Len(MasterTable)) : Cardinality(c) <= MaxRows}}

\* pd.DataFrame(assay_conditions_list): every row gets every column, NaN
\* where the row has no value.
DataFrame(rows) ==
  LET columns == UNION {DOMAIN rows[i].conds : i \in 1..Len(rows)}
  IN [i \in 1..Len(rows) |->
        [rows[i] EXCEPT !.conds =
           [c \in columns |-> IF c \in DOMAIN rows[i].conds THEN rows[i].conds[c] ELSE NaN]]]

\* --------------------------------------------------- initial annotations
NS_Study == DEFAULT_NS_BASE \o Sep \o <<"S","t","u","d","y">>
NS_Old == DEFAULT_NS_BASE \o <<"_","O","L","D">>
NS_Other == <<"O","t","h","e","r","N","a","m","e","s","p","a","c","e">>
NS_OtherMihcsme == <<"O","T","H","E","R">> \o Sep \o DEFAULT_NS_BASE
NS_Conditions == DEFAULT_NS_BASE \o Sep \o SHEET_CONDITIONS

\* Annotations a repository may already hold: on screen 1 one of every kind
\* of namespace, on plates and wells a few of them.
MixedStore ==
  { Ann(1, "Screen", 1, "str", DEFAULT_NS_BASE, EmptyKV),
    Ann(2, "Screen", 1, "str", NS_Study, ("Title" :> "old")),
    Ann(3, "Screen", 1, "str", NS_Old, EmptyKV),
    Ann(4, "Screen", 1, "str", NS_Other, EmptyKV),
    Ann(5, "Screen", 1, "none", <<>>, EmptyKV),
    Ann(6, "Screen", 1, "str", <<>>, EmptyKV),
    Ann(7, "Screen", 1, "noattr", <<>>, EmptyKV),
    Ann(8, "Screen", 1, "str", NS_OtherMihcsme, EmptyKV),
    Ann(9, "Plate", 11, "str", NS_Study, EmptyKV),
    Ann(10, "Plate", 11, "none", <<>>, EmptyKV),
    Ann(11, "Well", 101, "str", NS_Conditions, ("Drug" :> "old")),
    Ann(12, "Well", 101, "str", NS_Other, EmptyKV),
    Ann(13, "Well", 104, "str", NS_Conditions, ("Dose" :> "1")),
    Ann(14, "Plate", 13, "str", NS_OtherMihcsme, EmptyKV),
    Ann(15, "Screen", 2, "str", NS_Study, EmptyKV),
    Ann(16, "Plate", 12, "str", NS_Study, EmptyKV),
    Ann(17, "Well", 103, "str", NS_Conditions, ("Drug" :> "old")) }
InitialStores == { MixedStore }
FirstFreeId == 1 + Cardinality(MixedStore)

\* ------------------------------------------------------------ well level
\* metadata_lookup: normalised well name -> the row's conditions without
\* NaN; rows whose well cannot be normalised are left out, a later row of
\* the same well replaces an earlier one.
RECURSIVE BuildLookup(_, _)
\* The lookup in which the first row of a well stays.
BuildLookup_FirstRowStays(rows, lookup) ==
  IF rows = <<>> THEN lookup
  ELSE LET normalized_well == normalize_well_name(Head(rows).Well)
           well_metadata == NotNa(Head(rows).conds)
       IN IF normalized_well = None \/ normalized_well \in DOMAIN lookup
          THEN BuildLookup(Tail(rows), lookup)
          ELSE BuildLookup(Tail(rows),
                 [k \in DOMAIN lookup \cup {normalized_well} |->
                    IF k = normalized_well THEN well_metadata ELSE lookup[k]])

BuildLookup(rows, lookup) ==
  IF rows = <<>> THEN lookup
  ELSE LET normalized_well == normalize_well_name(Head(rows).Well)
           well_metadata == NotNa(Head(rows).conds)
       IN IF normalized_well = None
          THEN BuildLookup(Tail(rows), lookup)
          ELSE BuildLookup(Tail(rows),
                 [k \in DOMAIN lookup \cup {normalized_well} |->
                    IF k = normalized_well THEN well_metadata ELSE lookup[k]])

\* The well step that forgets to note the well as processed.
WellStep_NotNoted(st, well, metadata_lookup, namespace, failing) ==
  LET well_name == OmeroWellName(well.row, well.column)
      r == apply_metadata_to_object(st, "Well", well.id, metadata_lookup[well_name],
                                    FALSE, namespace, failing)
  IN IF well_name \in DOMAIN metadata_lookup
     THEN IF DOMAIN metadata_lookup[well_name] = {}
          THEN [st EXCEPT !.success_count = @ + 1, !.matched = @ \cup {well_name}]
          ELSE IF r.success
               THEN [st EXCEPT !.anns = r.anns, !.nextId = r.nextId,
                               !.success_count = @ + 1, !.matched = @ \cup {well_name}]
               ELSE [st EXCEPT !.fail_count = @ + 1, !.matched = @ \cup {well_name},
                               !.write_failed = @ \cup {well_name}]
     ELSE [st EXCEPT !.fail_count = @ + 1, !.remote_only = @ \cup {well_name}]

\* Step 4 of _apply_assay_conditions_to_wells, one remote well: matched,
\* remote_only and write_failed record, by well name, the branch the well
\* took (what the function logs).
WellStep(st, well, metadata_lookup, namespace, failing) ==
  LET well_name == OmeroWellName(well.row, well.column)
      seen == [st EXCEPT !.processed_well_names = @ \cup {well_name}]
      r == apply_metadata_to_object(st, "Well", well.id, metadata_lookup[well_name],
                                    FALSE, namespace, failing)
  IN IF well_name \in DOMAIN metadata_lookup
     THEN IF DOMAIN metadata_lookup[well_name] = {}
          THEN [seen EXCEPT !.success_count = @ + 1,
                            !.matched = @ \cup {well_name}]
          ELSE IF r.success
               THEN [seen EXCEPT !.anns = r.anns, !.nextId = r.nextId,
                                 !.success_count = @ + 1,
                                 !.matched = @ \cup {well_name}]
               ELSE [seen EXCEPT !.fail_count = @ + 1,
                                 !.matched = @ \cup {well_name},
                                 !.write_failed = @ \cup {well_name}]
     ELSE [seen EXCEPT !.fail_count = @ + 1,
                       !.remote_only = @ \cup {well_name}]

\* Step 4: the loop over the remote wells, in the order of the listing.
RECURSIVE WellLoop(_, _, _, _, _)
\* The loop that a failed write ends.
WellLoop_StopsOnFailure(st, wells, metadata_lookup, namespace, failing) ==
  IF wells = <<>> \/ st.write_failed # {} THEN st
  ELSE WellLoop(WellStep(st, Head(wells), metadata_lookup, namespace, failing),
                Tail(wells), metadata_lookup, namespace, failing)

\* The loop that ends at the first remote well the metadata does not name.
WellLoop_StopsAtUnmatched(st, wells, metadata_lookup, namespace, failing) ==
  IF wells = <<>> THEN st
  ELSE IF OmeroWellName(Head(wells).row, Head(wells).column) \notin DOMAIN metadata_lookup
       THEN WellStep(st, Head(wells), metadata_lookup, namespace, failing)
       ELSE WellLoop(WellStep(st, Head(wells), metadata_lookup, namespace, failing),
                     Tail(wells), metadata_lookup, namespace, failing)

WellLoop(st, wells, metadata_lookup, namespace, failing) ==
  IF wells = <<>> THEN st
  ELSE WellLoop(WellStep(st, Head(wells), metadata_lookup, namespace, failing),
                Tail(wells), metadata_lookup, namespace, failing)

\* Step 5 without the count of the wells found in the metadata only.
ExtraMetadata_NotCounted(looped, metadata_lookup) ==
  [looped EXCEPT !.metadata_only = DOMAIN metadata_lookup \ looped.processed_well_names]

\* Step 5: the metadata wells the loop did not meet count as failures.
ExtraMetadata(looped, metadata_lookup) ==
  LET metadata_wells == DOMAIN metadata_lookup
      extra_metadata == metadata_wells \ looped.processed_well_names
  IN [looped EXCEPT !.fail_count = @ + Cardinality(extra_metadata),
                    !.metadata_only = extra_metadata]

WellStart(st) ==
  [anns |-> st.anns, nextId |-> st.nextId, success_count |-> 0, fail_count |-> 0,
   processed_well_names |-> {}, matched |-> {}, remote_only |-> {},
   metadata_only |-> {}, write_failed |-> {}]

\* The filter that keeps the rows of every plate.
PlateMetadata_AllRows(assay_conditions_df, plate_identifier) == assay_conditions_df

\* The rows of one plate: assay_conditions_df[assay_conditions_df['Plate'] == plate_identifier]
PlateMetadata(assay_conditions_df, plate_identifier) ==
  SelectSeq(assay_conditions_df, LAMBDA row : row.Plate = plate_identifier)

\* _apply_assay_conditions_to_wells from step 1 on, for the wells as
\* plate.listChildren() lists them: success_count, fail_count, the store it
\* leaves and the classification of the wells.
apply_to_listed_wells(st, omero_wells, plate_identifier, assay_conditions_df, namespace, failing) ==
  LET plate_metadata == PlateMetadata(assay_conditions_df, plate_identifier)
      omero_names == {OmeroWellName(w.row, w.column) : w \in Range(omero_wells)}
      metadata_lookup == BuildLookup(plate_metadata, <<>>)
  IN IF plate_metadata = <<>>
     THEN [WellStart(st) EXCEPT !.fail_count = Len(omero_wells),
                                !.remote_only = omero_names]
     ELSE IF omero_wells = <<>>
          THEN [WellStart(st) EXCEPT !.fail_count = Cardinality(DOMAIN metadata_lookup),
                                     !.metadata_only = DOMAIN metadata_lookup]
          ELSE ExtraMetadata(WellLoop(WellStart(st), omero_wells, metadata_lookup,
                                      namespace, failing),
                             metadata_lookup)

\* _apply_assay_conditions_to_wells
apply_assay_conditions_to_wells(st, plate_id, plate_identifier, assay_conditions_df, namespace, failing) ==
  apply_to_listed_wells(st, PlateWells(plate_id), plate_identifier, assay_conditions_df,
                        namespace, failing)

\* ------------------------------------------------------------------ state
VARIABLES
  mode,          \* "script": main_loop of the OMERO script; "cli": main() of the library
  target_type,   \* "Screen" or "Plate"
  target_ids,    \* the ids to process, in order
  namespace,     \* base namespace
  replace,       \* the replace flag
  metadata,      \* the parsed document
  anns0,         \* the annotations of the repository when the run starts
  anns,          \* the annotations of the repository
  nextId,        \* the id the repository gives the next annotation
  pc,            \* where the run is
  idx,           \* index into target_ids of the target being processed
  fatal,         \* the fatal error that ended the run, or "none"
  summary,       \* annotate_omero_object: the summary being filled
  processed_ok,  \* annotate_omero_object: its flag
  plates,        \* annotate_omero_object: plates still to process
  well_totals,   \* annotate_omero_object: total_well_success, total_well_fail
  results,       \* the summaries returned so far
  faults,        \* remote calls that have failed in this run
  call,          \* record of the synchronisation in progress
  hist,          \* records of the synchronisations finished
  well_name,     \* normalize_well_name: the text it is given
  normalized,    \* normalize_well_name: what successive calls returned
  document,      \* the metadata document the caller holds
  returned,      \* what the last operation on documents returned
  workbook,      \* convert_excel_to_json: the Excel file it is given
  result,        \* convert_excel_to_json: what it returned or raised
  validation_report, \* validate_mihcsme_file_structure: what it returned
  grid,          \* a plate's declared size and the position of one of its wells
  derived        \* the name derived for that well, then whether the metadata well matched

\* What the functions checked on their own work on; a run leaves it alone.
aside == <<well_name, normalized, document, returned, workbook, result,
          validation_report, grid, derived>>
config == <<mode, target_type, target_ids, namespace, replace, metadata, anns0, aside>>
vars == <<mode, target_type, target_ids, namespace, replace, metadata, anns0, anns,
          nextId, pc, idx, fatal, summary, processed_ok, plates, well_totals,
          results, faults, call, hist, aside>>

\* The ids a run may be given: both screens, or plate 11 and an id that
\* names no object.
TargetIdChoices(ttype) == IF ttype = "Screen" THEN ScreenIds ELSE {11, MissingId}

NoSummary ==
  [status |-> "error", target_id |-> 0, wells_processed |-> 0,
   wells_succeeded |-> 0, wells_failed |-> 0, removed_annotations |-> 0]
NoCall == [target_id |-> 0, before |-> {}, after_removal |-> {}, delete_raised |-> {},
           delete_calls |-> {}, failed_writes |-> {},
           plates |-> <<>>, after |-> {}, faulted |-> FALSE, summary |-> NoSummary]

Init ==
  /\ mode \in {"script", "cli"}
  /\ target_type \in {"Screen", "Plate"}
  /\ target_ids \in SeqsUpTo(TargetIdChoices(target_type),
                             IF mode = "script" THEN MaxTargets ELSE 1)
  /\ target_ids # <<>>
  /\ namespace = DEFAULT_NS_BASE
  /\ replace \in BOOLEAN
  /\ metadata \in Documents
  /\ anns0 \in InitialStores
  /\ anns = anns0
  /\ nextId = FirstFreeId
  /\ pc = "parse"
  /\ idx = 1
  /\ fatal = "none"
  /\ summary = NoSummary
  /\ processed_ok = TRUE
  /\ plates = <<>>
  /\ well_totals = [success |-> 0, fail |-> 0]
  /\ results = <<>>
  /\ faults = 0
  /\ call = NoCall
  /\ hist = <<>>
  /\ well_name = <<>>
  /\ normalized = <<>>
  /\ document = <<>>
  /\ returned = <<>>
  /\ workbook = <<>>
  /\ result = <<>>
  /\ validation_report = <<>>
  /\ grid = <<>>
  /\ derived = <<>>

\* ------------------------------------------------------ plate name check
\* main_loop: the plate names of the document and of the target.
metadata_plates(doc) == {doc.conditions[i].Plate : i \in 1..Len(doc.conditions)}
omero_plates(ttype, tid) ==
  IF ttype = "Screen" THEN {PlateName(p) : p \in Range(ScreenPlates(tid))}
  ELSE {PlateName(tid)}

\* The check that compares how many plate names each side has.
PlateNameMismatch_ByCount(in_metadata, in_omero) ==
  /\ in_metadata # {} /\ in_omero # {}
  /\ Cardinality(in_metadata) # Cardinality(in_omero)

\* The check that raises only when names are missing on both sides.
PlateNameMismatch_BothSides(in_metadata, in_omero) ==
  /\ in_metadata # {} /\ in_omero # {}
  /\ LET missing_in_omero == in_metadata \ in_omero
         missing_in_metadata == in_omero \ in_metadata
     IN missing_in_omero # {} /\ missing_in_metadata # {}

\* main_loop: the condition under which it raises "Plate name mismatch".
PlateNameMismatch(in_metadata, in_omero) ==
  /\ in_metadata # {} /\ in_omero # {}
  /\ LET missing_in_omero == in_metadata \ in_omero
         missing_in_metadata == in_omero \ in_metadata
     IN missing_in_omero # {} \/ missing_in_metadata # {}

\* ---------------------------------------------------------------- actions
CurrentTarget == target_ids[idx]
InRun == idx \in 1..Len(target_ids)
Budget(failing) == faults + Cardinality(failing) <= MaxFaults

\* parse_excel_to_model / convert_excel_to_json: returns the document, or
\* raises (missing sheet, missing column, unreadable file) before the loop.
parse_excel ==
  /\ pc = "parse"
  /\ \E raises \in BOOLEAN :
       /\ pc' = IF raises THEN "fatal" ELSE "loop"
       /\ fatal' = IF raises THEN "structure" ELSE "none"
  /\ UNCHANGED <<config, anns, nextId, idx, summary, processed_ok, plates,
                 well_totals, results, faults, call, hist>>

\* main_loop: the target object is not found, skip it.
main_loop_skip ==
  /\ pc = "loop" /\ InRun /\ mode = "script"
  /\ ~ObjectExists(target_type, CurrentTarget)
  /\ idx' = idx + 1
  /\ UNCHANGED <<config, anns, nextId, pc, fatal, summary, processed_ok, plates,
                 well_totals, results, faults, call, hist>>

\* main_loop: the plate names disagree, raise ValueError.
main_loop_mismatch ==
  /\ pc = "loop" /\ InRun /\ mode = "script"
  /\ ObjectExists(target_type, CurrentTarget)
  /\ PlateNameMismatch(metadata_plates(metadata), omero_plates(target_type, CurrentTarget))
  /\ pc' = "fatal"
  /\ fatal' = "plate_mismatch"
  /\ UNCHANGED <<config, anns, nextId, idx, summary, processed_ok, plates,
                 well_totals, results, faults, call, hist>>

\* annotate_omero_object that removes whatever the flag says.
FirstStep_AlwaysRemoves(replace_flag) == "remove"
\* annotate_omero_object: "if replace:" the removal step comes first, else the
\* writes start at once.
FirstStep(replace_flag) == IF replace_flag THEN "remove" ELSE "apply_object"

\* main_loop calls upload_metadata_to_omero; main() of the library calls
\* annotate_omero_object without any check.  Entry of annotate_omero_object.
annotate_begin ==
  /\ pc = "loop" /\ InRun
  /\ mode = "script" =>
       /\ ObjectExists(target_type, CurrentTarget)
       /\ ~PlateNameMismatch(metadata_plates(metadata),
                             omero_plates(target_type, CurrentTarget))
  /\ summary' = [NoSummary EXCEPT !.target_id = CurrentTarget]
  /\ processed_ok' = TRUE
  /\ call' = [NoCall EXCEPT !.target_id = CurrentTarget, !.before = anns,
                            !.after_removal = anns]
  /\ pc' = FirstStep(replace)
  /\ UNCHANGED <<config, anns, nextId, idx, fatal, plates, well_totals, results,
                 faults, hist>>

\* annotate_omero_object returns its summary to the caller, which goes on
\* with the next target.
Return(sum, store, finished) ==
  /\ results' = Append(results, sum)
  /\ hist' = Append(hist, [finished EXCEPT !.after = store, !.summary = sum])
  /\ call' = NoCall
  /\ summary' = NoSummary
  /\ processed_ok' = TRUE
  /\ plates' = <<>>
  /\ well_totals' = [success |-> 0, fail |-> 0]
  /\ idx' = idx + 1
  /\ pc' = "loop"

\* annotate_omero_object, replace=True: remove the existing annotations.
annotate_remove ==
  /\ pc = "remove"
  /\ LET calls == {o \in TargetTree(target_type, CurrentTarget) :
                     annotations_to_remove(anns, o.otype, o.oid, namespace) # {}}
     IN \E failing \in SUBSET calls :
          /\ Budget(failing)
          /\ LET removal_summary ==
                   IF target_type = "Screen"
                   THEN remove_screen_metadata(anns, CurrentTarget, namespace, failing)
                   ELSE remove_plate_metadata(anns, CurrentTarget, namespace, failing)
                 sum == [summary EXCEPT !.removed_annotations = removal_summary.total_removed]
                 noted == [call EXCEPT !.after_removal = removal_summary.anns,
                                       !.delete_raised = failing,
                                       !.delete_calls = removal_summary.delete_calls,
                                       !.faulted = failing # {}]
             IN /\ anns' = removal_summary.anns
                /\ faults' = faults + Cardinality(failing)
                /\ IF removal_summary.errors
                   THEN Return(sum, removal_summary.anns, noted)
                   ELSE /\ summary' = sum
                        /\ call' = noted
                        /\ pc' = "apply_object"
                        /\ UNCHANGED <<idx, processed_ok, plates, well_totals, results, hist>>
  /\ UNCHANGED <<config, nextId, fatal>>

\* annotate_omero_object, step 1: the three information sheets on the
\* target, then the plates whose wells step 2 will process.
annotate_object_level ==
  /\ pc = "apply_object"
  /\ LET tid == CurrentTarget
         ns_investigation == namespace \o Sep \o SHEET_INVESTIGATION
         ns_study == namespace \o Sep \o SHEET_STUDY
         ns_assay == namespace \o Sep \o SHEET_ASSAY
         sheets == metadata.sheets
         written(ns, sheet) ==
           {Call(target_type, tid, ns \o Sep \o g.group) :
              g \in {x \in Range(sheet) : DOMAIN NotNa(x.data) # {}}}
         calls == IF ObjectExists(target_type, tid)
                  THEN written(ns_investigation, sheets.investigation)
                       \cup written(ns_study, sheets.study)
                       \cup written(ns_assay, sheets.assay)
                  ELSE {}
     IN \E failing \in SUBSET calls :
          /\ Budget(failing)
          /\ LET r1 == apply_metadata_to_object([anns |-> anns, nextId |-> nextId],
                         target_type, tid, sheets.investigation, TRUE, ns_investigation, failing)
                 r2 == apply_metadata_to_object(r1, target_type, tid, sheets.study,
                                                TRUE, ns_study, failing)
                 r3 == apply_metadata_to_object(r2, target_type, tid, sheets.assay,
                                                TRUE, ns_assay, failing)
                 assay_conditions_list == metadata.conditions
             IN /\ anns' = r3.anns
                /\ nextId' = r3.nextId
                /\ processed_ok' = (processed_ok /\ r1.success /\ r2.success /\ r3.success)
                /\ plates' = IF assay_conditions_list = <<>> \/ ~ObjectExists(target_type, tid)
                             THEN <<>>
                             ELSE IF target_type = "Screen" THEN ScreenPlates(tid)
                             ELSE <<tid>>
                /\ faults' = faults + Cardinality(failing)
                /\ call' = [call EXCEPT !.faulted = @ \/ failing # {},
                                         !.failed_writes = failing]
  /\ well_totals' = [success |-> 0, fail |-> 0]
  /\ pc' = "plate_loop"
  /\ UNCHANGED <<config, idx, fatal, summary, results, hist>>

\* annotate_omero_object, step 2: one pass of the loop over the plates.
annotate_plate ==
  /\ pc = "plate_loop" /\ plates # <<>>
  /\ LET plate_id == Head(plates)
         plate_identifier == PlateName(plate_id)
         ns_conditions == namespace \o Sep \o SHEET_CONDITIONS
         assay_conditions_df == DataFrame(metadata.conditions)
         lookup == BuildLookup(PlateMetadata(assay_conditions_df, plate_identifier), <<>>)
         calls == {Call("Well", w.id, ns_conditions) :
                     w \in {x \in Range(PlateWells(plate_id)) :
                              /\ OmeroWellName(x.row, x.column) \in DOMAIN lookup
                              /\ DOMAIN lookup[OmeroWellName(x.row, x.column)] # {}}}
     IN \E failing \in SUBSET calls :
          /\ Budget(failing)
          /\ LET r == apply_assay_conditions_to_wells([anns |-> anns, nextId |-> nextId],
                        plate_id, plate_identifier, assay_conditions_df, ns_conditions, failing)
             IN /\ anns' = r.anns
                /\ nextId' = r.nextId
                /\ well_totals' = [success |-> well_totals.success + r.success_count,
                                   fail |-> well_totals.fail + r.fail_count]
                /\ call' = [call EXCEPT
                     !.faulted = @ \/ failing # {},
                     !.plates = Append(@,
                        [plate_id |-> plate_id, matched |-> r.matched,
                         remote_only |-> r.remote_only, metadata_only |-> r.metadata_only,
                         write_failed |-> r.write_failed])]
                /\ faults' = faults + Cardinality(failing)
  /\ plates' = Tail(plates)
  /\ UNCHANGED <<config, pc, idx, fatal, summary, processed_ok, results, hist>>

\* The return whose status also looks at the wells that failed.
annotate_return_WellsCount ==
  /\ pc = "plate_loop" /\ plates = <<>>
  /\ Return([summary EXCEPT
               !.wells_succeeded = well_totals.success,
               !.wells_failed = well_totals.fail,
               !.wells_processed = well_totals.success + well_totals.fail,
               !.status = IF processed_ok /\ well_totals.fail = 0
                          THEN "success" ELSE "partial_success"],
            anns, call)
  /\ UNCHANGED <<config, anns, nextId, fatal, faults>>

\* annotate_omero_object: the well counts and the status, and return.
annotate_return ==
  /\ pc = "plate_loop" /\ plates = <<>>
  /\ Return([summary EXCEPT
               !.wells_succeeded = well_totals.success,
               !.wells_failed = well_totals.fail,
               !.wells_processed = well_totals.success + well_totals.fail,
               !.status = IF processed_ok THEN "success" ELSE "partial_success"],
            anns, call)
  /\ UNCHANGED <<config, anns, nextId, fatal, faults>>

\* main_loop: every target has been processed.
main_loop_done ==
  /\ pc = "loop" /\ ~InRun
  /\ pc' = "done"
  /\ UNCHANGED <<config, anns, nextId, idx, fatal, summary, processed_ok, plates,
                 well_totals, results, faults, call, hist>>

Next ==
  \/ parse_excel
  \/ main_loop_skip
  \/ main_loop_mismatch
  \/ annotate_begin
  \/ annotate_remove
  \/ annotate_object_level
  \/ annotate_plate
  \/ annotate_return
  \/ main_loop_done

Spec == Init /\ [][Next]_vars

\* ---------------------------------------------------------------- claims
Finished == Range(hist)
InCall == pc \in {"remove", "apply_object", "plate_loop"}

\* C1: two synchronisations in a row of the same target with replace=true
\* and the same document, none with a failed remote call, leave the same
\* annotations: the same contents on the same objects with the same number
\* of copies (ids apart) after the second as after the first.
C1_ReplaceIdempotent ==
  \A i \in 1..(Len(hist) - 1) :
    ( /\ replace
      /\ hist[i].target_id = hist[i + 1].target_id
      /\ ~hist[i].faulted /\ ~hist[i + 1].faulted )
    => ContentBag(hist[i + 1].after) = ContentBag(hist[i].after)

\* C1 witness: screen 1 synchronised twice with replace over a repository
\* that held annotations; both runs wrote one on a well, under new ids.
C1_Witness ==
  /\ replace /\ Len(hist) = 2 /\ anns0 = MixedStore
  /\ hist[1].target_id = 1 /\ hist[2].target_id = 1
  /\ ~hist[1].faulted /\ ~hist[2].faulted
  /\ \E a \in hist[1].after : a.otype = "Well" /\ a.id >= FirstFreeId
  /\ \E a \in hist[2].after : a.otype = "Well" /\ a.id >= FirstFreeId
  /\ hist[1].after # hist[2].after

\* C2 (as claimed): no step removes an annotation that has no namespace,
\* has no namespace accessor, or whose namespace does not start with the
\* filter (a different namespace, the empty string).
C2_Spared(a) == a.kind # "str" \/ ~StartsWith(a.ns, namespace)
C2_OtherNamespacesSpared == [][\A a \in anns : C2_Spared(a) => a \in anns']_vars

\* C3 (as claimed): after the removal step of a replace, with no delete call
\* failing, the annotations removed are exactly those on the target and its
\* plates and wells whose namespace is namespace_base or starts with
\* namespace_base + "/", and the summary holds their number.
C3_Hierarchical(a) ==
  a.kind = "str" /\ (a.ns = namespace \/ StartsWith(a.ns, namespace \o Sep))
C3_ExactlyHierarchicalRemoved ==
  (pc = "apply_object" /\ replace /\ call.delete_raised = {}) =>
    LET tree == TargetTree(target_type, CurrentTarget)
        removed == call.before \ call.after_removal
    IN /\ removed = {a \in OnTree(call.before, tree) : C3_Hierarchical(a)}
       /\ summary.removed_annotations = Cardinality(removed)

MetadataWells(plate_identifier) ==
  {normalize_well_name(metadata.conditions[i].Well) :
     i \in {j \in 1..Len(metadata.conditions) :
              metadata.conditions[j].Plate = plate_identifier}} \ {None}
RemoteWells(plate_id) ==
  {OmeroWellName(w.row, w.column) : w \in Range(PlateWells(plate_id))}
PlateRecords == Range(call.plates) \cup UNION {Range(h.plates) : h \in Finished}

RECURSIVE SumSeq(_)
SumSeq(seq) == IF seq = <<>> THEN 0 ELSE Head(seq) + SumSeq(Tail(seq))

\* C5: for every plate processed, the wells the loop found matched are the
\* metadata wells that are remote wells, those it found only in the
\* metadata are the metadata wells that are not remote, those it found only
\* remotely are the remote wells without metadata; the three sets are
\* pairwise disjoint and together hold every well of either side.
C5_WellsPartitioned ==
  \A p \in PlateRecords :
    LET M == MetadataWells(PlateName(p.plate_id))
        R == RemoteWells(p.plate_id)
    IN /\ p.matched = M \cap R
       /\ p.metadata_only = M \ R
       /\ p.remote_only = R \ M
       /\ p.matched \cap p.metadata_only = {}
       /\ p.matched \cap p.remote_only = {}
       /\ p.metadata_only \cap p.remote_only = {}
       /\ p.matched \cup p.metadata_only \cup p.remote_only = M \cup R

W_A01 == <<"A","0","1">>
W_A02 == <<"A","0","2">>
W_B01 == <<"B","0","1">>

\* C5 witness: Plate1 holds A01 and A02, the document names A01 and B01.
C5_Witness ==
  \E p \in PlateRecords :
    /\ p.plate_id = 11
    /\ p.matched = {W_A01} /\ p.metadata_only = {W_B01} /\ p.remote_only = {W_A02}

\* C6: of every synchronisation that returned a status other than error,
\* wells_succeeded is the number of matched wells whose write did not fail
\* (written, or nothing to write), wells_failed the number of remote-only
\* wells, metadata-only wells and matched wells whose write failed, summed
\* over the plates processed, and wells_processed is their sum.
C6_Succeeded(p) == Cardinality(p.matched \ p.write_failed)
C6_Failed(p) ==
  Cardinality(p.remote_only) + Cardinality(p.metadata_only) + Cardinality(p.write_failed)
C6_SummaryCounts ==
  \A h \in Finished :
    h.summary.status # "error" =>
      /\ h.summary.wells_succeeded = SumSeq([i \in 1..Len(h.plates) |-> C6_Succeeded(h.plates[i])])
      /\ h.summary.wells_failed = SumSeq([i \in 1..Len(h.plates) |-> C6_Failed(h.plates[i])])
      /\ h.summary.wells_processed = h.summary.wells_succeeded + h.summary.wells_failed

\* C6 witness: matched {A01}, metadata-only {B01}, remote-only {A02} with
\* replace=false reports processed 3, succeeded 1, failed 2.
C6_Witness ==
  \E h \in Finished :
    /\ ~replace /\ Len(h.plates) = 1
    /\ h.plates[1].matched = {W_A01} /\ h.plates[1].metadata_only = {W_B01}
    /\ h.plates[1].remote_only = {W_A02} /\ h.plates[1].write_failed = {}
    /\ \E a \in h.after \ h.before : a.otype = "Well" /\ a.oid = 101
    /\ h.summary.wells_processed = 3
    /\ h.summary.wells_succeeded = 1
    /\ h.summary.wells_failed = 2

\* The plates annotate_omero_object finds under a target.
PlatesOf(tid) == IF target_type = "Screen" THEN ScreenPlates(tid) ELSE <<tid>>
ConditionsOf(plate_id) ==
  BuildLookup(PlateMetadata(DataFrame(metadata.conditions), PlateName(plate_id)), <<>>)
\* The synchronisation h created an annotation with these pairs on the well.
WrittenOnWell(h, well_id, kv) ==
  \E a \in h.after \ h.before :
    a.otype = "Well" /\ a.oid = well_id /\ a.ns = NS_Conditions /\ a.kv = kv

\* C7: a failed well write never stops the loops.  Of every synchronisation
\* that reached the wells, every plate of the target was processed, in
\* order; on every plate every remote well was visited; every matched well
\* with conditions was either written or counted as a failed write, never
\* both; and the summary counts every failure once.
C7_FailureDoesNotStopLoop ==
  \A h \in Finished :
    (h.summary.status # "error" /\ metadata.conditions # <<>>
       /\ ObjectExists(target_type, h.target_id)) =>
      /\ [i \in 1..Len(h.plates) |-> h.plates[i].plate_id] = PlatesOf(h.target_id)
      /\ \A p \in Range(h.plates) :
           /\ p.matched \cup p.remote_only = RemoteWells(p.plate_id)
           /\ \A w \in Range(PlateWells(p.plate_id)) :
                LET name == OmeroWellName(w.row, w.column)
                IN (name \in p.matched /\ DOMAIN ConditionsOf(p.plate_id)[name] # {}) =>
                     (name \in p.write_failed) = ~WrittenOnWell(h, w.id, ConditionsOf(p.plate_id)[name])
      /\ h.summary.wells_failed = SumSeq([i \in 1..Len(h.plates) |-> C6_Failed(h.plates[i])])
      /\ h.summary.wells_processed = h.summary.wells_succeeded + h.summary.wells_failed

\* C7 witness: the write on A01 of plate 11 failed; A02 of the same plate
\* and plate 12 after it were still processed and the summary came back.
C7_Witness ==
  \E h \in Finished :
    /\ h.target_id = 1 /\ target_type = "Screen" /\ Len(h.plates) = 2
    /\ h.plates[1].write_failed = {W_A01}
    /\ W_A02 \in h.plates[1].remote_only
    /\ h.plates[2].matched = {W_A01}
    /\ h.summary.wells_failed = 2 /\ h.summary.wells_succeeded = 1

\* Every plate name under the target disagrees with the document, and only
\* some do.
WholeTargetMismatch(tid) ==
  /\ ObjectExists(target_type, tid)
  /\ metadata_plates(metadata) # {} /\ omero_plates(target_type, tid) # {}
  /\ metadata_plates(metadata) \cap omero_plates(target_type, tid) = {}
SubsetMismatch(tid) ==
  /\ ObjectExists(target_type, tid)
  /\ metadata_plates(metadata) \cap omero_plates(target_type, tid) # {}
  /\ metadata_plates(metadata) # omero_plates(target_type, tid)
AtTarget == pc = "loop" /\ InRun

C9_PlateSynchronised(h, p) ==
  IF PlateName(p.plate_id) \in metadata_plates(metadata)
  THEN \A w \in Range(PlateWells(p.plate_id)) :
         LET name == OmeroWellName(w.row, w.column)
         IN (name \in p.matched /\ DOMAIN ConditionsOf(p.plate_id)[name] # {}
               /\ name \notin p.write_failed) =>
              WrittenOnWell(h, w.id, ConditionsOf(p.plate_id)[name])
  ELSE /\ p.matched = {} /\ p.metadata_only = {}
       /\ p.remote_only = RemoteWells(p.plate_id)
       /\ \A a \in h.after \ h.before :
            ~(a.otype = "Well" /\ a.oid \in {w.id : w \in Range(PlateWells(p.plate_id))})

C10_NoMutationBeforeFatal == pc = "fatal" => (anns = anns0 /\ hist = <<>>)

\* ====================================================================
\* normalize_well_name on its own
\* ====================================================================
\* The run of the script, not started: what the functions checked on their
\* own leave alone.
run == <<mode, target_type, target_ids, namespace, replace, metadata, anns0, anns,
         nextId, pc, idx, fatal, summary, processed_ok, plates, well_totals,
         results, faults, call, hist>>
NoRun ==
  /\ mode = "cli" /\ target_type = "Plate" /\ target_ids = <<>>
  /\ namespace = DEFAULT_NS_BASE /\ replace = FALSE
  /\ metadata = [sheets |-> NoSheets, conditions |-> <<>>]
  /\ anns0 = {} /\ anns = {} /\ nextId = 1
  /\ pc = "idle" /\ idx = 1 /\ fatal = "none"
  /\ summary = NoSummary /\ processed_ok = TRUE /\ plates = <<>>
  /\ well_totals = [success |-> 0, fail |-> 0]
  /\ results = <<>> /\ faults = 0 /\ call = NoCall /\ hist = <<>>

\* Largest column number spelled out among the inputs.
MaxColumn == 60

\* The spellings of a well: row letter i of the alphabet in either case,
\* then the column number as it stands or with one zero before it.
Spelling(i, lower, col, padded) ==
  <<IF lower THEN LowerLetters[i] ELSE UpperLetters[i]>>
    \o (IF padded THEN <<"0">> ELSE <<>>) \o Decimal(col)
Spellings ==
  {Spelling(i, lower, col, padded) :
     i \in 1..Len(UpperLetters), lower \in BOOLEAN, col \in 0..MaxColumn, padded \in BOOLEAN}
\* Other texts a Well cell may hold.
OddTexts ==
  { <<>>, <<"A">>, <<"7">>, <<" ">>, <<"A","B">>, <<"A","1","B">>, <<"A"," ","1">>,
    <<" ","a","1"," ">>, <<"1","2">>, <<"A","A","1">>,
    <<"I","n","v","a","l","i","d">>, <<"A","1","0","0">>, <<"z","1","0","0">> }
WellTexts == Spellings \cup OddTexts

InitNormalize ==
  /\ NoRun
  /\ well_name \in WellTexts
  /\ normalized = <<>>
  /\ document = <<>>
  /\ returned = <<>>
  /\ workbook = <<>>
  /\ result = <<>>
  /\ validation_report = <<>>
  /\ grid = <<>>
  /\ derived = <<>>

\* normalize_well_name(well_name)
call_normalize ==
  /\ normalized = <<>>
  /\ normalized' = <<normalize_well_name(well_name)>>
  /\ UNCHANGED <<run, grid, derived, validation_report, well_name, document, returned, workbook, result>>

\* normalize_well_name applied to the text the first call returned
call_normalize_again ==
  /\ Len(normalized) = 1 /\ normalized[1] # None
  /\ normalized' = Append(normalized, normalize_well_name(normalized[1]))
  /\ UNCHANGED <<run, grid, derived, validation_report, well_name, document, returned, workbook, result>>

NextNormalize == call_normalize \/ call_normalize_again
SpecNormalize == InitNormalize /\ [][NextNormalize]_vars

\* Rows A-P and columns 1-48 of the largest plate, and the canonical name of
\* a well: the row letter in upper case and the column as two digits.
ValidRows == 1..16
ValidColumns == 1..48
Canonical(i, col) == <<UpperLetters[i], Digits[(col \div 10) + 1], Digits[(col % 10) + 1]>>

\* Every spelling of every well of the largest plate, with its canonical name.
ValidCases ==
  {[text |-> Spelling(i, lower, col, padded), canonical |-> Canonical(i, col)] :
     i \in ValidRows, lower \in BOOLEAN, col \in ValidColumns, padded \in BOOLEAN}

\* C11: for every row letter A-P in either case and every column 1-48
\* written with or without a leading zero, normalize_well_name returns the
\* upper-case row letter followed by the column as exactly two digits, so
\* every spelling of a well gives the same text.
C11_CanonicalForm ==
  normalized # <<>> =>
    \A c \in ValidCases : well_name = c.text => normalized[1] = c.canonical

\* C11 witness: "a1" has been normalised to "A01".
C11_Witness ==
  well_name = <<"a","1">> /\ normalized # <<>> /\ normalized[1] = <<"A","0","1">>

\* The text as normalize_well_name reads it, and whether its first character
\* is a row letter of the largest plate.
AsRead == Upper(Strip(well_name))
IsRowLetter(c) == \E i \in ValidRows : UpperLetters[i] = c
IsColumnText(s) == IsDigits(s) /\ DigitsValue(s) \in ValidColumns

\* C12: a text whose first character is a letter outside A-P is never given
\* a well name.
C12_InvalidRowLetterFails ==
  (normalized # <<>> /\ AsRead # <<>>
     /\ IsIn(UpperLetters, AsRead[1]) /\ ~IsRowLetter(AsRead[1])) =>
    normalized[1] = None

\* C13: a text shorter than two characters, or with a row letter A-P and a
\* remainder that is not a column number 1-48, is never given a well name,
\* and no well name returned is longer than three characters.
C13_InvalidWellFormatFails ==
  normalized # <<>> =>
    /\ (Len(AsRead) < 2 \/ (IsRowLetter(AsRead[1]) /\ ~IsColumnText(Tail(AsRead)))) =>
         normalized[1] = None
    /\ normalized[1] # None => Len(normalized[1]) <= 3

\* C14: for every spelling of a well A-P, 1-48, normalize_well_name returns
\* a well name, and given that name it returns the same name.
C14_IdempotentTotal ==
  \A c \in ValidCases :
    well_name = c.text =>
      /\ normalized # <<>> => normalized[1] # None
      /\ Len(normalized) = 2 => normalized[2] = normalized[1]

\* C14 witness: "p48" gave "P48", and "P48" gave "P48".
C14_Witness ==
  /\ well_name = <<"p","4","8">>
  /\ normalized = << <<"P","4","8">>, <<"P","4","8">> >>

\* ====================================================================
\* The metadata document (mihcsme_py.models)
\* ====================================================================
\* Most AssayConditions of a document, and most rows of a table.
MaxConditions == 2

InvalidRowLetter == <<"<InvalidRowLetter>">>
InvalidWellFormat == <<"<InvalidWellFormat>">>
WellErrors == {InvalidRowLetter, InvalidWellFormat}

\* normalize(raw): a row letter A-P in either case and a column 1-48 of one
\* or two digits give the canonical name; anything else is an error.
normalize(raw) ==
  LET t == Upper(raw) IN
  IF Len(t) < 2 THEN InvalidWellFormat
  ELSE IF IsIn(UpperLetters, t[1]) /\ ~IsRowLetter(t[1]) THEN InvalidRowLetter
  ELSE IF ~IsRowLetter(t[1]) THEN InvalidWellFormat
  ELSE IF Len(t) <= 3 /\ IsColumnText(Tail(t))
       THEN Canonical(IndexOf(UpperLetters, t[1]), DigitsValue(Tail(t)))
       ELSE InvalidWellFormat

\* A blank cell: missing (NaN) or empty.
Blank == {NaN, ""}
\* The cells kept whatever they hold.
Present_All(cells) == cells
Present(cells) == [k \in {c \in DOMAIN cells : cells[c] \notin Blank} |-> cells[k]]

\* The constructor that keeps the well as it was written.
AssayCondition_AsWritten(plate, well, conditions) ==
  [plate |-> plate, well |-> well, conditions |-> conditions]

\* AssayCondition(plate=, well=, conditions=): the well is stored canonical.
AssayCondition(plate, well, conditions) ==
  [plate |-> plate, well |-> normalize(well), conditions |-> conditions]

Absent == <<>>
\* MIHCSMEMetadata(...)
MIHCSMEMetadata(investigation, study, assay, conditions, references) ==
  [investigation_information |-> investigation, study_information |-> study,
   assay_information |-> assay, assay_conditions |-> conditions,
   reference_sheets |-> references]

Raised(error) == [kind |-> "error", value |-> error]
Returned(kind, value) == [kind |-> kind, value |-> value]

\* The AssayConditions of the rows of a table, or the first error.
RECURSIVE ConditionsOfRows(_, _)
ConditionsOfRows(rows, sofar) ==
  IF rows = <<>> THEN Returned("conditions", sofar)
  ELSE LET row == Head(rows)
           made == AssayCondition(row.Plate, row.Well, Present(row.cells))
       IN IF made.well \in WellErrors THEN Raised(made.well)
          ELSE ConditionsOfRows(Tail(rows), Append(sofar, made))

\* The table whose columns are the keys of the first row only.
to_dataframe_FirstRowColumns(doc) ==
  LET columns == IF doc.assay_conditions = <<>> THEN {}
                 ELSE DOMAIN doc.assay_conditions[1].conditions
  IN [has_plate |-> TRUE, has_well |-> TRUE, columns |-> columns,
      rows |-> [i \in 1..Len(doc.assay_conditions) |->
                  LET c == doc.assay_conditions[i]
                  IN [Plate |-> c.plate, Well |-> c.well,
                      cells |-> [k \in columns |->
                                   IF k \in DOMAIN c.conditions THEN c.conditions[k]
                                   ELSE NaN]]]]

\* to_dataframe / to_table: one row per AssayCondition in order; the columns
\* are Plate, Well and every key of any row, a row's missing keys are blank.
to_dataframe(doc) ==
  LET columns == UNION {DOMAIN doc.assay_conditions[i].conditions :
                          i \in 1..Len(doc.assay_conditions)}
  IN [has_plate |-> TRUE, has_well |-> TRUE, columns |-> columns,
      rows |-> [i \in 1..Len(doc.assay_conditions) |->
                  LET c == doc.assay_conditions[i]
                  IN [Plate |-> c.plate, Well |-> c.well,
                      cells |-> [k \in columns |->
                                   IF k \in DOMAIN c.conditions THEN c.conditions[k]
                                   ELSE NaN]]]]

\* from_dataframe / from_table
from_dataframe(df) ==
  IF ~df.has_plate THEN Raised(<<"<MissingRequiredColumn Plate>">>)
  ELSE IF ~df.has_well THEN Raised(<<"<MissingRequiredColumn Well>">>)
  ELSE LET made == ConditionsOfRows(df.rows, <<>>)
       IN IF made.kind = "error" THEN made
          ELSE Returned("document", MIHCSMEMetadata(Absent, Absent, Absent, made.value, {}))

\* The update that also drops the reference sheets.
update_conditions_from_dataframe_Fresh(doc, df) ==
  from_dataframe(df)

\* update_conditions_from_dataframe / replace_conditions
update_conditions_from_dataframe(doc, df) ==
  LET made == from_dataframe(df)
  IN IF made.kind = "error" THEN made
     ELSE Returned("document", [doc EXCEPT !.assay_conditions = made.value.assay_conditions])

\* to_omero_dict: the information groups that are there, the conditions as
\* flat rows, the reference sheets under their names.
to_omero_dict(doc) ==
  [InvestigationInformation |-> doc.investigation_information,
   StudyInformation |-> doc.study_information,
   AssayInformation |-> doc.assay_information,
   AssayConditions |-> [i \in 1..Len(doc.assay_conditions) |->
                          LET c == doc.assay_conditions[i]
                          IN [Plate |-> c.plate, Well |-> c.well, cells |-> c.conditions]],
   references |-> doc.reference_sheets]

\* The reading that leaves the reference sheets behind.
from_omero_dict_NoReferences(d) ==
  LET made == ConditionsOfRows(d.AssayConditions, <<>>)
  IN IF made.kind = "error" THEN made
     ELSE Returned("document",
            MIHCSMEMetadata(d.InvestigationInformation, d.StudyInformation,
                            d.AssayInformation, made.value, {}))

\* from_omero_dict
from_omero_dict(d) ==
  LET made == ConditionsOfRows(d.AssayConditions, <<>>)
  IN IF made.kind = "error" THEN made
     ELSE Returned("document",
            MIHCSMEMetadata(d.InvestigationInformation, d.StudyInformation,
                            d.AssayInformation, made.value, d.references))

\* ------------------------------------------------ documents: the inputs
ConstructorArgs ==
  << [plate |-> "Plate1", well |-> <<"A","1">>,
      conditions |-> [Treatment |-> "DMSO", Dose |-> "0.1", DoseUnit |-> "uM"]],
     [plate |-> "Plate2", well |-> <<"p","4","8">>, conditions |-> [Dose |-> "10"]],
     [plate |-> "Plate1", well |-> <<"Z","1">>, conditions |-> [Treatment |-> "DMSO"]] >>
OfferedRows ==
  << [Plate |-> "Plate1", Well |-> <<"A","1">>, cells |-> [Treatment |-> "DMSO", Dose |-> NaN]],
     [Plate |-> "Plate1", Well |-> <<"a","0","2">>, cells |-> [Treatment |-> "", Dose |-> "10"]],
     [Plate |-> "Plate1", Well |-> <<"A","5","0">>, cells |-> [Treatment |-> "Drug", Dose |-> "1"]] >>
\* What a document holds besides its conditions: nothing, or information
\* groups and a reference sheet.
Bare == [investigation |-> Absent, study |-> Absent, assay |-> Absent, references |-> {}]
Filled ==
  [investigation |-> [DataOwner |-> [FirstName |-> "Jane", LastName |-> "Doe"],
                      InvestigationInformation |-> [ProjectID |-> "INV-001"]],
   study |-> [Study |-> [StudyTitle |-> "Test Study"]],
   assay |-> Absent,
   references |-> {[name |-> "_Organisms", data |-> [Human |-> "Homo sapiens"]]}]
InformationChoices == {Bare, Filled}

IndexSeqs(n) == UNION {[1..k -> 1..n] : k \in 0..MaxConditions}
OfferedTables ==
  {[has_plate |-> hp, has_well |-> hw, columns |-> {"Treatment", "Dose"},
    rows |-> [i \in 1..Len(pick) |-> OfferedRows[pick[i]]]] :
     pick \in IndexSeqs(Len(OfferedRows)), hp \in {TRUE}, hw \in {TRUE}}
     \cup {[has_plate |-> hp, has_well |-> ~hp, columns |-> {"Treatment", "Dose"},
            rows |-> <<OfferedRows[1]>>] : hp \in BOOLEAN}
DictOf(info, rows) ==
  [InvestigationInformation |-> info.investigation, StudyInformation |-> info.study,
   AssayInformation |-> info.assay, AssayConditions |-> rows,
   references |-> info.references]
OfferedDicts ==
  {DictOf(Filled, [i \in 1..Len(pick) |-> OfferedRows[pick[i]]]) :
     pick \in IndexSeqs(Len(OfferedRows))}
    \cup {DictOf(Bare, <<OfferedRows[1]>>)}

\* ---------------------------------------------- documents: the operations
EmptyDocument == MIHCSMEMetadata(Absent, Absent, Absent, <<>>, {})
Call2(op, receiver, made_from, outcome) ==
  [op |-> op, receiver |-> receiver, made_from |-> made_from,
   kind |-> outcome.kind, value |-> outcome.value]

InitDocument ==
  /\ NoRun
  /\ well_name = <<>> /\ normalized = <<>>
  /\ document = EmptyDocument
  /\ returned = Call2("none", <<>>, <<>>, Returned("none", <<>>))
  /\ workbook = <<>> /\ result = <<>> /\ validation_report = <<>>
  /\ grid = <<>> /\ derived = <<>>

\* The AssayConditions a caller constructs one by one, or the first error.
RECURSIVE Constructed(_, _)
Constructed(args, sofar) ==
  IF args = <<>> THEN Returned("conditions", sofar)
  ELSE LET made == AssayCondition(Head(args).plate, Head(args).well, Head(args).conditions)
       IN IF made.well \in WellErrors THEN Raised(made.well)
          ELSE Constructed(Tail(args), Append(sofar, made))

\* MIHCSMEMetadata(..., assay_conditions=[AssayCondition(...), ...])
construct ==
  /\ returned.op = "none"
  /\ \E pick \in IndexSeqs(Len(ConstructorArgs)), info \in InformationChoices :
       LET made == Constructed([i \in 1..Len(pick) |-> ConstructorArgs[pick[i]]], <<>>)
       IN returned' = Call2("construct", <<>>, <<>>,
            IF made.kind = "error" THEN made
            ELSE Returned("document",
                   MIHCSMEMetadata(info.investigation, info.study, info.assay,
                                   made.value, info.references)))
  /\ UNCHANGED <<run, grid, derived, validation_report, well_name, normalized, document, workbook, result>>

\* metadata = <the document returned>
adopt ==
  /\ returned.kind = "document" /\ returned.value # document
  /\ document' = returned.value
  /\ UNCHANGED <<run, grid, derived, validation_report, well_name, normalized, returned, workbook, result>>

\* document.to_dataframe()
call_to_dataframe ==
  /\ returned' = Call2("to_dataframe", <<document>>, <<>>,
                       Returned("table", to_dataframe(document)))
  /\ UNCHANGED <<run, grid, derived, validation_report, well_name, normalized, document, workbook, result>>

\* MIHCSMEMetadata.from_dataframe(df), df an edited table
call_from_dataframe ==
  /\ \E df \in OfferedTables :
       returned' = Call2("from_dataframe", <<>>, <<>>, from_dataframe(df))
                     @@ [arg |-> df]
  /\ UNCHANGED <<run, grid, derived, validation_report, well_name, normalized, document, workbook, result>>

\* MIHCSMEMetadata.from_dataframe(document.to_dataframe())
round_trip_dataframe ==
  /\ returned.kind = "table"
  /\ returned' = Call2("from_dataframe", <<>>, returned.receiver, from_dataframe(returned.value))
                   @@ [arg |-> returned.value]
  /\ UNCHANGED <<run, grid, derived, validation_report, well_name, normalized, document, workbook, result>>

\* document.update_conditions_from_dataframe(df)
call_update_conditions_from_dataframe ==
  /\ \E df \in OfferedTables :
       returned' = Call2("update_conditions_from_dataframe", <<document>>, <<>>,
                         update_conditions_from_dataframe(document, df))
                     @@ [arg |-> df]
  /\ UNCHANGED <<run, grid, derived, validation_report, well_name, normalized, document, workbook, result>>

\* document.to_omero_dict()
call_to_omero_dict ==
  /\ returned' = Call2("to_omero_dict", <<document>>, <<>>,
                       Returned("dict", to_omero_dict(document)))
  /\ UNCHANGED <<run, grid, derived, validation_report, well_name, normalized, document, workbook, result>>

\* MIHCSMEMetadata.from_omero_dict(d), d a dictionary read from elsewhere
call_from_omero_dict ==
  /\ \E d \in OfferedDicts :
       returned' = Call2("from_omero_dict", <<>>, <<>>, from_omero_dict(d)) @@ [arg |-> d]
  /\ UNCHANGED <<run, grid, derived, validation_report, well_name, normalized, document, workbook, result>>

\* MIHCSMEMetadata.from_omero_dict(document.to_omero_dict())
round_trip_omero_dict ==
  /\ returned.kind = "dict"
  /\ returned' = Call2("from_omero_dict", <<>>, returned.receiver, from_omero_dict(returned.value))
                   @@ [arg |-> returned.value]
  /\ UNCHANGED <<run, grid, derived, validation_report, well_name, normalized, document, workbook, result>>

NextDocument ==
  \/ construct
  \/ adopt
  \/ call_to_dataframe
  \/ call_from_dataframe
  \/ round_trip_dataframe
  \/ call_update_conditions_from_dataframe
  \/ call_to_omero_dict
  \/ call_from_omero_dict
  \/ round_trip_omero_dict
SpecDocument == InitDocument /\ [][NextDocument]_vars

\* The canonical names: row letter A-P, two-digit column 01-48.
CanonicalWells == {Canonical(i, col) : i \in ValidRows, col \in ValidColumns}
WellsOf(doc) == {doc.assay_conditions[i].well : i \in 1..Len(doc.assay_conditions)}

\* C15: the well of every AssayCondition of every document, the one held and
\* the one an operation has just returned, is in canonical form.
C15_WellsCanonical ==
  /\ WellsOf(document) \subseteq CanonicalWells
  /\ returned.kind = "document" => WellsOf(returned.value) \subseteq CanonicalWells

\* C15 witness: a table with the wells "A1" and "a02" has become a document
\* with the wells A01 and A02.
C15_Witness ==
  /\ returned.op = "from_dataframe" /\ returned.kind = "document"
  /\ Len(returned.arg.rows) = 2
  /\ returned.arg.rows[1].Well = <<"A","1">> /\ returned.arg.rows[2].Well = <<"a","0","2">>
  /\ returned.value.assay_conditions[1].well = <<"A","0","1">>
  /\ returned.value.assay_conditions[2].well = <<"A","0","2">>

C17_BlankCellsOmitted ==
  (returned.op = "from_dataframe" /\ returned.kind = "document") =>
    /\ Len(returned.value.assay_conditions) = Len(returned.arg.rows)
    /\ \A i \in 1..Len(returned.arg.rows) :
         LET cells == returned.arg.rows[i].cells
             conditions == returned.value.assay_conditions[i].conditions
         IN /\ DOMAIN conditions = {k \in DOMAIN cells : cells[k] # NaN /\ cells[k] # ""}
            /\ \A k \in DOMAIN conditions : conditions[k] = cells[k]

\* C17 witness: a row with Treatment and a missing Dose, and a row with an
\* empty Treatment and a Dose.
C17_Witness ==
  /\ returned.op = "from_dataframe" /\ returned.kind = "document"
  /\ Len(returned.arg.rows) = 2
  /\ returned.arg.rows[1].cells["Dose"] = NaN
  /\ returned.arg.rows[2].cells["Treatment"] = ""
  /\ DOMAIN returned.value.assay_conditions[1].conditions = {"Treatment"}
  /\ DOMAIN returned.value.assay_conditions[2].conditions = {"Dose"}

\* The canonical name of a well as written, looked up among the spellings.
CanonicalOf(text) == (CHOOSE c \in ValidCases : c.text = text).canonical

\* C18: update_conditions_from_dataframe leaves the document it is called on
\* as it was, and the document it returns has the information groups and
\* reference sheets of that document and, for assay conditions, exactly the
\* rows of the table in order.
C18_ReplaceConditionsFrame ==
  [][(returned' # returned /\ returned'.op = "update_conditions_from_dataframe") =>
       /\ document' = document
       /\ returned'.receiver = <<document>>
       /\ returned'.kind = "document" =>
            LET new == returned'.value
                rows == returned'.arg.rows
            IN /\ new.investigation_information = document.investigation_information
               /\ new.study_information = document.study_information
               /\ new.assay_information = document.assay_information
               /\ new.reference_sheets = document.reference_sheets
               /\ Len(new.assay_conditions) = Len(rows)
               /\ \A i \in 1..Len(rows) :
                    /\ new.assay_conditions[i].plate = rows[i].Plate
                    /\ new.assay_conditions[i].well = CanonicalOf(rows[i].Well)
                    /\ new.assay_conditions[i].conditions =
                         [k \in {c \in DOMAIN rows[i].cells :
                                   rows[i].cells[c] # NaN /\ rows[i].cells[c] # ""} |->
                            rows[i].cells[k]]]_vars

\* C18 witness: a document with information groups, a reference sheet and
\* two conditions has had its conditions replaced by one other row.
C18_Witness ==
  /\ returned.op = "update_conditions_from_dataframe" /\ returned.kind = "document"
  /\ document = returned.receiver[1]
  /\ document.investigation_information # Absent /\ document.reference_sheets # {}
  /\ Len(document.assay_conditions) = 2
  /\ Len(returned.value.assay_conditions) = 1
  /\ returned.value.assay_conditions[1].well = <<"A","0","2">>
  /\ returned.value.reference_sheets = document.reference_sheets

NoSheet == [state |-> "absent", rows |-> <<>>]
Unreadable == [state |-> "unreadable", rows |-> <<>>]
Sheet(rows) == [state |-> "ok", rows |-> rows]
R(comment, cells) == [comment |-> comment, cells |-> cells]

InformationRows ==
  << R(TRUE, <<"# MIHCSME", NaN, NaN>>),
     R(FALSE, <<"Annotation_groups", "Key", "Value">>),
     R(FALSE, <<"DataOwner", "First Name", "Jane">>),
     R(FALSE, <<NaN, "Orphan", "x">>),
     R(FALSE, <<"DataOwner", NaN, "y">>),
     R(FALSE, <<"DataOwner", "Last Name", "Doe">>),
     R(FALSE, <<"Study", "Title", NaN>>) >>
ConditionRows ==
  << R(TRUE, <<"# conditions", NaN, NaN, NaN>>),
     R(FALSE, <<"Plate", "Well", "Drug", NaN>>),
     R(FALSE, <<"Plate1", <<"A","1">>, "DMSO", "note">>),
     R(FALSE, <<"Plate1", <<"B","0","1">>, NaN, NaN>>) >>
\* The same table with the well A01 of Plate1 on two rows, a well of another
\* plate, a well written in lower case and a row without a plate.
RepeatedRows ==
  << R(FALSE, <<"Plate", "Well", "Drug", NaN>>),
     R(FALSE, <<"Plate1", <<"A","0","1">>, "DMSO", NaN>>),
     R(FALSE, <<"Plate2", <<"A","0","1">>, "DMSO", NaN>>),
     R(FALSE, <<"Plate1", <<"A","0","1">>, "Taxol", NaN>>),
     R(FALSE, <<"Plate1", <<"b","2">>, "Taxol", NaN>>),
     R(FALSE, <<NaN, <<"C","4","9">>, "Taxol", NaN>>) >>
\* A table without a Well column.
UnnamedRows ==
  << R(FALSE, <<"Plate", "Position", "Drug", NaN>>),
     R(FALSE, <<"Plate1", <<"A","0","1">>, "DMSO", NaN>>) >>
ReferenceRows ==
  << R(FALSE, <<"Name", "Latin">>),
     R(FALSE, <<"Human", "Homo sapiens">>),
     R(FALSE, <<NaN, "nothing">>) >>

InformationSheets == {NoSheet, Unreadable, Sheet(InformationRows)}
ConditionSheets ==
  {NoSheet, Unreadable, Sheet(ConditionRows), Sheet(<<ConditionRows[1]>>),
   Sheet(RepeatedRows), Sheet(SubSeq(RepeatedRows, 1, 3)), Sheet(UnnamedRows)}
ReferenceSheets == {NoSheet, Unreadable, Sheet(ReferenceRows), Sheet(<<>>)}
Workbooks ==
  [opens : BOOLEAN,
   InvestigationInformation : InformationSheets,
   StudyInformation : InformationSheets,
   AssayInformation : InformationSheets,
   AssayConditions : ConditionSheets,
   reference : ReferenceSheets]

\* df[~df.iloc[:, 0].astype(str).str.startswith('#')]
WithoutComments(rows) == SelectSeq(rows, LAMBDA r : ~r.comment)

\* The (group, key, value) rows of an information sheet as nested mappings.
RECURSIVE SheetData(_, _)
SheetData(rows, sheet_data) ==
  IF rows = <<>> THEN sheet_data
  ELSE LET group == Head(rows).cells[1]
           key == Head(rows).cells[2]
           value == Head(rows).cells[3]
       IN IF group = NaN \/ group = "Annotation_groups" \/ key = NaN
          THEN SheetData(Tail(rows), sheet_data)
          ELSE SheetData(Tail(rows),
                 [g \in DOMAIN sheet_data \cup {group} |->
                    IF g = group
                    THEN [k \in (IF g \in DOMAIN sheet_data THEN DOMAIN sheet_data[g] ELSE {})
                                  \cup {key} |->
                            IF k = key THEN value ELSE sheet_data[g][k]]
                    ELSE sheet_data[g]])

\* The AssayConditions sheet: the first row left is the header, the others
\* one record each, columns without a header dropped.
ConditionRecords(rows) ==
  LET df == WithoutComments(rows)
  IN IF df = <<>> THEN <<>>
     ELSE LET headers == df[1].cells
              named == {j \in 1..Len(headers) : headers[j] # NaN}
          IN [i \in 1..(Len(df) - 1) |->
                [h \in {headers[j] : j \in named} |->
                   df[i + 1].cells[CHOOSE j \in named : headers[j] = h]]]

\* A reference sheet: first column the key, second the value.
RECURSIVE ReferenceData(_, _)
ReferenceData(rows, ref_data) ==
  IF rows = <<>> THEN ref_data
  ELSE LET key == Head(rows).cells[1]
       IN IF key = NaN THEN ReferenceData(Tail(rows), ref_data)
          ELSE ReferenceData(Tail(rows),
                 [k \in DOMAIN ref_data \cup {key} |->
                    IF k = key THEN Head(rows).cells[2] ELSE ref_data[k]])
ReferenceSheetData(rows) ==
  LET df == WithoutComments(rows)
  IN IF df = <<>> THEN <<>> ELSE ReferenceData(Tail(df), <<>>)

RegularSheets == {"InvestigationInformation", "StudyInformation", "AssayInformation"}

\* The try / except around the AssayConditions sheet.
ConditionsOrRaise(sheet) ==
  IF sheet.state = "unreadable" THEN [raised |-> FALSE, value |-> <<>>]
  ELSE [raised |-> FALSE, value |-> ConditionRecords(sheet.rows)]

\* convert_excel_to_json(excel_file)
convert_excel_to_json(xls) ==
  IF ~xls.opens \/ \E n \in RegularSheets : xls[n].state = "unreadable"
  THEN [kind |-> "raised", value |-> <<>>]
  ELSE LET conditions == ConditionsOrRaise(xls.AssayConditions)
       IN IF conditions.raised THEN [kind |-> "raised", value |-> <<>>]
          ELSE [kind |-> "returned",
                value |->
                  [regular |-> [n \in {m \in RegularSheets : xls[m].state = "ok"} |->
                                  SheetData(WithoutComments(xls[n].rows), <<>>)],
                   has_conditions |-> xls.AssayConditions.state # "absent",
                   AssayConditions |-> conditions.value,
                   has_reference |-> xls.reference.state # "absent",
                   reference |-> IF xls.reference.state = "ok"
                                 THEN ReferenceSheetData(xls.reference.rows)
                                 ELSE <<>>]]

\* ---------------------------------------- validate_mihcsme_file_structure
\* well_pattern: ^[A-P](0?[1-9]|[1-3][0-9]|4[0-8])$
well_pattern(well) ==
  /\ Len(well) \in {2, 3}
  /\ \E i \in 1..16 : UpperLetters[i] = well[1]
  /\ LET t == Tail(well)
         d(c) == IF IsIn(Digits, c) THEN IndexOf(Digits, c) - 1 ELSE 0 - 1
     IN \/ Len(t) = 1 /\ d(t[1]) \in 1..9
        \/ Len(t) = 2 /\ d(t[1]) = 0 /\ d(t[2]) \in 1..9
        \/ Len(t) = 2 /\ d(t[1]) \in 1..3 /\ d(t[2]) \in 0..9
        \/ Len(t) = 2 /\ d(t[1]) = 4 /\ d(t[2]) \in 0..8

Validation(errors, warnings) == [errors |-> errors, warnings |-> warnings]
\* The place of a column in the header row.
ColumnOf(headers, name) == CHOOSE j \in 1..Len(headers) : headers[j] = name
\* plate_well_combos[plate_well_combos.duplicated()] is not empty: some row
\* repeats the Plate and the Well of an earlier row.
Duplicated(data_rows, plate, well) ==
  \E i, j \in 1..Len(data_rows) :
    /\ i < j
    /\ data_rows[i].cells[plate] # NaN
    /\ data_rows[i].cells[plate] = data_rows[j].cells[plate]
    /\ data_rows[i].cells[well] = data_rows[j].cells[well]

\* _validate_assay_conditions_sheet: the errors and warnings it returns, by kind.
validate_assay_conditions_sheet(sheet) ==
  IF sheet.state = "unreadable" THEN Validation({"sheet_error"}, {})
  ELSE LET df == WithoutComments(sheet.rows) IN
       IF df = <<>> THEN Validation({"no_data"}, {})
       ELSE LET headers == df[1].cells
                data_rows == Tail(df)
                missing == (IF IsIn(headers, "Plate") THEN {} ELSE {"no_plate_column"})
                             \cup (IF IsIn(headers, "Well") THEN {} ELSE {"no_well_column"})
            IN IF missing # {} THEN Validation(missing, {})
               ELSE LET plate == ColumnOf(headers, "Plate")
                        well == ColumnOf(headers, "Well")
                    IN Validation(
                         IF Duplicated(data_rows, plate, well) THEN {"duplicates"} ELSE {},
                         (IF \E r \in Range(data_rows) : ~well_pattern(r.cells[well])
                          THEN {"invalid_well"} ELSE {})
                         \cup (IF \E r \in Range(data_rows) : r.cells[plate] = NaN
                               THEN {"empty_plate"} ELSE {}))

\* _validate_key_value_sheet; the sheets of the model have three columns.
validate_key_value_sheet(sheet) ==
  IF sheet.state = "unreadable" THEN Validation({"sheet_error"}, {})
  ELSE IF \A r \in Range(WithoutComments(sheet.rows)) : \A j \in 1..3 : r.cells[j] = NaN
       THEN Validation({}, {"empty_sheet"})
       ELSE Validation({}, {})

\* validate_mihcsme_file_structure(excel_path)
validate_mihcsme_file_structure(xls) ==
  LET required == RegularSheets \cup {"AssayConditions"}
      parts == {validate_assay_conditions_sheet(xls.AssayConditions)}
                 \cup {validate_key_value_sheet(xls[n]) : n \in RegularSheets}
      errors == UNION {v.errors : v \in parts}
  IN IF ~xls.opens
     THEN [is_valid |-> FALSE, errors |-> {"file_error"}, warnings |-> {}]
     ELSE IF \E n \in required : xls[n].state = "absent"
          THEN [is_valid |-> FALSE, errors |-> {"missing_sheets"}, warnings |-> {}]
          ELSE [is_valid |-> errors = {}, errors |-> errors,
                warnings |-> UNION {v.warnings : v \in parts}]

InitConvert ==
  /\ NoRun
  /\ well_name = <<>> /\ normalized = <<>>
  /\ document = <<>> /\ returned = <<>>
  /\ workbook \in Workbooks
  /\ result = <<>>
  /\ validation_report = <<>>
  /\ grid = <<>> /\ derived = <<>>

call_convert_excel_to_json ==
  /\ result = <<>>
  /\ result' = <<convert_excel_to_json(workbook)>>
  /\ UNCHANGED <<run, grid, derived, validation_report, well_name, normalized, document,
                 returned, workbook>>

call_validate_mihcsme_file_structure ==
  /\ validation_report = <<>>
  /\ validation_report' = <<validate_mihcsme_file_structure(workbook)>>
  /\ UNCHANGED <<run, grid, derived, well_name, normalized, document, returned, workbook,
                 result>>

NextConvert == call_convert_excel_to_json \/ call_validate_mihcsme_file_structure
SpecConvert == InitConvert /\ [][NextConvert]_vars

\* C20: the conversion either raises or returns a document every region of
\* which was read: it never returns when a sheet of the file failed to be
\* read, with an empty list or mapping in that sheet's place.
C20_ParseAtomic ==
  (result # <<>> /\ result[1].kind = "returned") =>
    \A n \in RegularSheets \cup {"AssayConditions", "reference"} :
      workbook[n].state # "unreadable"

\* ====================================================================
\* The synchronisation: removal, wells, groups and status
\* ====================================================================
\* Every object a removal may be asked about: those of the repository and
\* one of each type that is not there.
AnyObjects ==
  {Obj("Screen", i) : i \in ScreenIds \cup {MissingId}}
    \cup {Obj("Plate", i) : i \in PlateIds \cup {MissingId}}
    \cup {Obj("Well", i) : i \in UNION {WellIds(p) : p \in PlateIds} \cup {MissingId}}

\* C21: deleting the annotations of an object that is not found, or of one
\* that carries no annotation, returns 0, calls conn.deleteObjects not at
\* all and leaves the repository as it was.  Of every removal step made: no
\* delete call for an object of the target tree without annotations, every
\* annotation removed hung on an object a delete call was made for, and a
\* target that is not found gives 0 removed, no call, the same repository.
C21_NothingToDelete ==
  /\ \A o \in AnyObjects : \A raises \in BOOLEAN :
       (~ObjectExists(o.otype, o.oid) \/ listAnnotations(anns, o.otype, o.oid) = {}) =>
         remove_object_annotations(anns, o.otype, o.oid, namespace, raises)
           = [count |-> 0, anns |-> anns, called |-> FALSE]
  /\ \A h \in Finished :
       replace =>
         /\ \A o \in TargetTree(target_type, h.target_id) :
              listAnnotations(h.before, o.otype, o.oid) = {} => o \notin h.delete_calls
         /\ \A a \in h.before \ h.after_removal : Obj(a.otype, a.oid) \in h.delete_calls
         /\ ~ObjectExists(target_type, h.target_id) =>
              /\ h.summary.removed_annotations = 0
              /\ h.delete_calls = {}
              /\ h.after = h.before

\* C21 witness: replace was asked for a plate that is not found; the
\* removal came back with 0 and an unchanged repository that holds
\* annotations, some of them on wells without any.
C21_Witness ==
  /\ replace /\ target_type = "Plate" /\ anns0 = MixedStore
  /\ \E h \in Finished :
       /\ h.target_id = MissingId /\ h.summary.status = "error"
       /\ h.summary.removed_annotations = 0 /\ h.delete_calls = {}
       /\ h.after = MixedStore
  /\ listAnnotations(anns, "Well", 102) = {}

\* The annotations a finished synchronisation created, and those on wells.
Created(h) == h.after \ h.before
\* The conditions of a row of the document that have a value.
RowConditions(row) == [k \in {c \in DOMAIN row.conds : row.conds[c] # NaN} |-> row.conds[k]]
\* Row i of the document is about this well of this plate.
RowIsOf(i, plate_id, w) ==
  /\ metadata.conditions[i].Plate = PlateName(plate_id)
  /\ normalize_well_name(metadata.conditions[i].Well) = OmeroWellName(w.row, w.column)

\* C22: every annotation a synchronisation creates on a well is a condition
\* annotation on a well of a plate of the target, for which the document has
\* a row whose plate is the plate's name and whose canonical well is the
\* well's coordinate; it holds exactly the conditions of such a row and is
\* not empty.  So nothing is created on a remote-only well, on a well of a
\* plate without rows, or on a matched well whose conditions are empty.
C22_OnlyMatchedWellsWritten ==
  \A h \in Finished :
    \A a \in Created(h) :
      a.otype = "Well" =>
        /\ a.kind = "str" /\ a.ns = namespace \o Sep \o SHEET_CONDITIONS
        /\ DOMAIN a.kv # {}
        /\ \E plate_id \in Range(PlatesOf(h.target_id)) :
             \E w \in Range(PlateWells(plate_id)) :
               /\ w.id = a.oid
               /\ \E i \in 1..Len(metadata.conditions) :
                    RowIsOf(i, plate_id, w) /\ a.kv = RowConditions(metadata.conditions[i])

\* C22 witness: screen 1 with the rows (Plate1, A1, Drug DMSO) and (Plate2,
\* a01, no value): A01 of Plate1 got Drug DMSO, the remote-only A02 and the
\* matched but empty A01 of Plate2 got nothing.
C22_Witness ==
  /\ target_type = "Screen"
  /\ metadata.conditions = <<MasterTable[1], MasterTable[3]>>
  /\ \E h \in Finished :
       /\ h.target_id = 1
       /\ \E a \in Created(h) : a.otype = "Well" /\ a.oid = 101 /\ a.kv = ("Drug" :> "DMSO")
       /\ ~\E a \in Created(h) : a.otype = "Well" /\ a.oid \in {102, 103}
       /\ h.plates[2].matched = {W_A01}

\* Every order in which the repository may list the wells of a plate.
Listings(plate_id) ==
  {[i \in 1..Len(PlateWells(plate_id)) |-> PlateWells(plate_id)[f[i]]] :
     f \in Permutations(1..Len(PlateWells(plate_id)))}
\* What _apply_assay_conditions_to_wells reports and leaves, ids apart:
\* the annotations it kept, those it created by content, and how many.
Outcome(r) ==
  [success_count |-> r.success_count, fail_count |-> r.fail_count,
   matched |-> r.matched, remote_only |-> r.remote_only,
   metadata_only |-> r.metadata_only, write_failed |-> r.write_failed,
   kept |-> r.anns \cap anns,
   created |-> {ContentOf(a) : a \in r.anns \ anns},
   created_count |-> Cardinality(r.anns \ anns)]

\* C23: whenever the run is about to process a plate, whichever writes
\* fail, processing it with its wells listed in any other order gives the
\* same matched, metadata-only and remote-only wells, the same success and
\* failure counts and the same annotations on every well.
C23_ListingOrderIrrelevant ==
  (pc = "plate_loop" /\ plates # <<>>) =>
    LET plate_id == Head(plates)
        ns_conditions == namespace \o Sep \o SHEET_CONDITIONS
        df == DataFrame(metadata.conditions)
        calls == {Call("Well", w.id, ns_conditions) : w \in Range(PlateWells(plate_id))}
    IN \A failing \in SUBSET calls :
         LET as_listed == Outcome(apply_assay_conditions_to_wells(
                            [anns |-> anns, nextId |-> nextId],
                            plate_id, PlateName(plate_id), df, ns_conditions, failing))
         IN \A listing \in Listings(plate_id) \ {PlateWells(plate_id)} :
              Outcome(apply_to_listed_wells([anns |-> anns, nextId |-> nextId], listing,
                                            PlateName(plate_id), df, ns_conditions, failing))
                = as_listed

\* C23 witness: Plate1, whose two wells can be listed in two orders, was
\* processed: A01 matched and written, A02 remote only, B01 metadata only.
C23_Witness ==
  /\ Cardinality(Listings(11)) = 2
  /\ \E p \in Range(call.plates) :
       /\ p.plate_id = 11
       /\ p.matched = {W_A01} /\ p.remote_only = {W_A02} /\ p.metadata_only = {W_B01}
       /\ p.write_failed = {}
  /\ \E a \in anns \ call.before : a.otype = "Well" /\ a.oid = 101

\* The information groups of the document, each with its sheet's name.
InformationGroups ==
  {[kind |-> SHEET_INVESTIGATION, group |-> g] : g \in Range(metadata.sheets.investigation)}
    \cup {[kind |-> SHEET_STUDY, group |-> g] : g \in Range(metadata.sheets.study)}
    \cup {[kind |-> SHEET_ASSAY, group |-> g] : g \in Range(metadata.sheets.assay)}
\* The fields of a group that have a value, and the namespace of the group.
PresentFields(g) == [k \in {f \in DOMAIN g.data : g.data[f] # NaN} |-> g.data[k]]
GroupNamespace(x) == namespace \o Sep \o x.kind \o Sep \o x.group.group
\* The annotations a finished synchronisation created on its target.
CreatedOnTarget(h) == {a \in Created(h) : a.otype = target_type /\ a.oid = h.target_id}

\* C24: of every synchronisation that went past the removal, the
\* annotations created on the target are one per information group with a
\* present field whose write did not fail, under
\* namespace_base/<SheetKind>/<GroupName>, holding exactly the group's
\* present fields; a group without present fields and a group whose write
\* failed get none, whatever happened to the other groups.
C24_OneAnnotationPerGroup ==
  \A h \in Finished :
    h.summary.status # "error" =>
      /\ \A a \in CreatedOnTarget(h) :
           \E x \in InformationGroups :
             a.kind = "str" /\ a.ns = GroupNamespace(x) /\ a.kv = PresentFields(x.group)
      /\ \A x \in InformationGroups :
           LET written == {a \in CreatedOnTarget(h) : a.ns = GroupNamespace(x)}
               failed == \/ ~ObjectExists(target_type, h.target_id)
                         \/ Call(target_type, h.target_id, GroupNamespace(x)) \in h.failed_writes
           IN IF DOMAIN PresentFields(x.group) = {} \/ failed
              THEN written = {}
              ELSE Cardinality(written) = 1

\* C24 witness: the write of the Study group failed; the groups DataOwner,
\* Library (after Study in the same sheet) and Assay (without its absent
\* Size) were written, the Biosample group without present fields was not.
C24_Witness ==
  /\ metadata.sheets = FullSheets
  /\ \E h \in Finished :
       /\ h.failed_writes =
            {Call(target_type, h.target_id, namespace \o Sep \o SHEET_STUDY \o Sep \o G_Study)}
       /\ h.summary.status = "partial_success"
       /\ Cardinality(CreatedOnTarget(h)) = 3
       /\ \E a \in CreatedOnTarget(h) :
            a.ns = namespace \o Sep \o SHEET_STUDY \o Sep \o G_Library /\ a.kv = ("Name" :> "L1")
       /\ \E a \in CreatedOnTarget(h) :
            a.ns = namespace \o Sep \o SHEET_ASSAY \o Sep \o G_Assay /\ a.kv = ("Type" :> "HCS")
       /\ \E a \in CreatedOnTarget(h) :
            a.ns = namespace \o Sep \o SHEET_INVESTIGATION \o Sep \o G_DataOwner

\* ====================================================================
\* The name of a remote well, on its own
\* ====================================================================
\* Declared plate sizes (rows, columns): 96 wells, 384 wells and the
\* largest grid a well name can address, and every 0-based position up to
\* one row and one column beyond the largest.
PlateSizes == {<<8, 12>>, <<16, 24>>, <<Cardinality(ValidRows), Cardinality(ValidColumns)>>}
Positions == (0..Cardinality(ValidRows)) \X (0..Cardinality(ValidColumns))
\* The wells a row of the document names (1-based row letter and column),
\* and the ways they are written.
NamedWells == {<<1, 1>>, <<1, 12>>, <<2, 1>>, <<16, 48>>}
InitGrid ==
  /\ NoRun
  /\ normalized = <<>> /\ document = <<>> /\ returned = <<>>
  /\ workbook = <<>> /\ result = <<>> /\ validation_report = <<>>
  /\ \E size \in PlateSizes, position \in Positions, named \in NamedWells,
        lower \in BOOLEAN, padded \in BOOLEAN :
       /\ grid = [rows |-> size[1], cols |-> size[2],
                  row |-> position[1], column |-> position[2],
                  named_row |-> named[1], named_column |-> named[2]]
       /\ well_name = Spelling(named[1], lower, named[2], padded)
  /\ derived = <<>>

\* The name of the well: by well_coord_to_name with the plate's size, and as
\* step 3 of _apply_assay_conditions_to_wells computes it.
derive_well_name ==
  /\ derived = <<>>
  /\ derived' = << [by_size |-> well_coord_to_name(grid.row, grid.column, grid.rows, grid.cols),
                    by_loop |-> OmeroWellName(grid.row, grid.column)] >>
  /\ UNCHANGED <<run, grid, validation_report, well_name, normalized, document, returned,
                 workbook, result>>

\* Step 4: the well is looked up in the metadata, which names well_name.
match_well_name ==
  /\ Len(derived) = 1
  /\ derived' = Append(derived, derived[1].by_loop \in DOMAIN
                         BuildLookup(<<Row("Plate1", well_name, EmptyKV)>>, <<>>))
  /\ UNCHANGED <<run, grid, validation_report, well_name, normalized, document, returned,
                 workbook, result>>

NextGrid == derive_well_name \/ match_well_name
SpecGrid == InitGrid /\ [][NextGrid]_vars

InsideGrid ==
  /\ grid.row < Cardinality(ValidRows) /\ grid.column < Cardinality(ValidColumns)
  /\ grid.row < grid.rows /\ grid.column < grid.cols

\* C25: for every position of rows 0-15 and columns 0-47 inside the plate's
\* declared size, the name derived for the remote well is the row's letter
\* followed by column + 1 as two digits, the Normalizer's canonical form,
\* both by well_coord_to_name and in the well loop; and the well matches a
\* metadata well exactly when the two are the same position of the grid.
C25_RemoteNameCanonical ==
  (derived # <<>> /\ InsideGrid) =>
    /\ derived[1].by_size = Canonical(grid.row + 1, grid.column + 1)
    /\ derived[1].by_loop = Canonical(grid.row + 1, grid.column + 1)
    /\ Len(derived) = 2 =>
         (derived[2] <=> (grid.named_row = grid.row + 1 /\ grid.named_column = grid.column + 1))

\* C25 witness: the remote well at row 15, column 47 of a 16 x 48 plate got
\* the name P48 and matched the metadata well written p48.
C25_Witness ==
  /\ Len(derived) = 2 /\ InsideGrid
  /\ grid.row = 15 /\ grid.column = 47
  /\ well_name = <<"p", "4", "8">>
  /\ derived[1].by_loop = <<"P", "4", "8">>
  /\ derived[2]

\* The AssayConditions table of the file can be read and some (Plate, Well)
\* pair is on two of its rows.
RepeatsAWell ==
  /\ workbook.opens /\ workbook.AssayConditions.state = "ok"
  /\ \E i, j \in 2..Len(RepeatedRows) :
       /\ i < j
       /\ SubSeq(RepeatedRows[i].cells, 1, 2) = SubSeq(RepeatedRows[j].cells, 1, 2)
       /\ {RepeatedRows[i], RepeatedRows[j]} \subseteq Range(workbook.AssayConditions.rows)

\* C26: a (Plate, Well) pair on two rows of the condition table is reported
\* by the validation as a warning, not as an error, and does not make the
\* file invalid; and the conversion still returns the document.
C26_DuplicatesWarnOnly ==
  RepeatsAWell =>
    /\ (validation_report # <<>> /\ \A n \in RegularSheets : workbook[n].state # "absent") =>
         /\ "duplicates" \notin validation_report[1].errors
         /\ "duplicates" \in validation_report[1].warnings
         /\ validation_report[1].errors = {} => validation_report[1].is_valid
    /\ (result # <<>> /\ \A n \in RegularSheets : workbook[n].state # "unreadable") =>
         result[1].kind = "returned"

\* --------------------------------------------- without replace, and twice
\* The copies a store holds of an annotation's content.
Copies(store, a) == Cardinality({b \in store : ContentOf(b) = ContentOf(a)})

\* C27: without replace a synchronisation deletes nothing: while it runs and
\* when it has returned, every annotation of the repository from before the
\* call is still there and no delete call was made; so after two
\* synchronisations in a row of the same target, none with a failed call,
\* every annotation the first wrote has two more copies than before the first.
C27_NoReplaceDeletesNothing ==
  ~replace =>
    /\ InCall => call.before \subseteq anns /\ call.delete_calls = {}
    /\ anns0 \subseteq anns
    /\ \A h \in Finished :
         /\ h.before \subseteq h.after
         /\ h.delete_calls = {} /\ h.summary.removed_annotations = 0
    /\ \A i \in 1..(Len(hist) - 1) :
         ( /\ hist[i].target_id = hist[i + 1].target_id
           /\ ~hist[i].faulted /\ ~hist[i + 1].faulted )
         => \A a \in Created(hist[i]) :
              Copies(hist[i + 1].after, a) = Copies(hist[i].before, a) + 2

\* C27 witness: screen 1 synchronised twice without replace over a
\* repository that held annotations in the namespace: they are all still
\* there, and the annotation written on a well is there twice.
C27_Witness ==
  /\ ~replace /\ Len(hist) = 2 /\ anns0 = MixedStore
  /\ hist[1].target_id = 1 /\ hist[2].target_id = 1
  /\ ~hist[1].faulted /\ ~hist[2].faulted
  /\ \E a \in anns0 : a.kind = "str" /\ StartsWith(a.ns, namespace)
  /\ \E a \in Created(hist[1]) :
       /\ a.otype = "Well"
       /\ Copies(hist[2].after, a) = 2
  /\ \E a \in Created(hist[1]) : a.otype = "Screen"

\* ------------------------------------------- several rows for one well
\* The rows of the document about this well of this plate.
RowsOf(plate_id, w) == {i \in 1..Len(metadata.conditions) : RowIsOf(i, plate_id, w)}
LastOf(rows) == CHOOSE i \in rows : \A j \in rows : j <= i
\* The wells the plates processed counted: each well name once per plate.
RECURSIVE WellsCounted(_)
WellsCounted(processed) ==
  IF processed = <<>> THEN 0
  ELSE Cardinality(Head(processed).matched \cup Head(processed).remote_only
                     \cup Head(processed).metadata_only)
       + WellsCounted(Tail(processed))

\* C28: a synchronisation creates at most one annotation on a remote well,
\* also when several rows of the document are about that well; the one it
\* creates holds the conditions of the last such row; and the well counts of
\* the summary count every well name of a plate once.
C28_OneAnnotationPerWell ==
  \A h \in Finished :
    /\ \A plate_id \in PlateIds : \A w \in Range(PlateWells(plate_id)) :
         LET made == {a \in Created(h) : a.otype = "Well" /\ a.oid = w.id}
         IN /\ Cardinality(made) <= 1
            /\ \A a \in made :
                 /\ RowsOf(plate_id, w) # {}
                 /\ a.kv = RowConditions(metadata.conditions[LastOf(RowsOf(plate_id, w))])
    /\ h.summary.wells_processed = WellsCounted(h.plates)
    /\ h.summary.wells_processed = h.summary.wells_succeeded + h.summary.wells_failed

\* C28 witness: the document has two rows with different conditions for well
\* A01 of Plate1 (written A1 and a01); the synchronisation created one
\* annotation on that well, with the conditions of the second row, and the
\* plate counts two wells: A01 and the remote-only A02.
C28_Witness ==
  \E h \in Finished :
    /\ Len(metadata.conditions) = 2
    /\ RowsOf(11, PlateWells(11)[1]) = {1, 2}
    /\ RowConditions(metadata.conditions[1]) # RowConditions(metadata.conditions[2])
    /\ \E a \in Created(h) :
         /\ a.otype = "Well" /\ a.oid = 101
         /\ a.kv = RowConditions(metadata.conditions[2])
    /\ h.summary.wells_processed = 2 /\ h.summary.wells_succeeded = 1

\* ----------------------------------------------- replace on a plate target
\* The annotations of a store that are not on the plate or on one of its wells.
OffPlate(store, plate_id) == store \ OnTree(store, TargetTree("Plate", plate_id))

\* C29: a synchronisation of a Plate target with replace makes delete calls
\* only for that plate and its own wells, and leaves the annotations of every
\* other object (the parent screen, the sibling plates, their wells) as they
\* were: none removed, none added.
C29_PlateReplaceStaysOnPlate ==
  (target_type = "Plate" /\ replace) =>
    /\ InCall => /\ OffPlate(anns, call.target_id) = OffPlate(call.before, call.target_id)
                 /\ call.delete_calls \subseteq TargetTree("Plate", call.target_id)
    /\ \A h \in Finished :
         /\ OffPlate(h.after, h.target_id) = OffPlate(h.before, h.target_id)
         /\ h.delete_calls \subseteq TargetTree("Plate", h.target_id)
         /\ h.before \ h.after_removal \subseteq OnTree(h.before, TargetTree("Plate", h.target_id))

\* C29 witness: plate 11 synchronised with replace: annotations of the
\* namespace were deleted on the plate or its wells, while those of the
\* namespace on screen 1, on the sibling plate 12 and on its well 103 are
\* still there.
C29_Witness ==
  \E h \in Finished :
    /\ target_type = "Plate" /\ replace /\ h.target_id = 11
    /\ h.before \ h.after # {}
    /\ \A o \in {Obj("Screen", 1), Obj("Plate", 12), Obj("Well", 103)} :
         \E a \in h.after \cap h.before :
           /\ Obj(a.otype, a.oid) = o
           /\ a.kind = "str" /\ StartsWith(a.ns, namespace)

\* ------------------------------------------------------------- the status
\* The information groups whose write the synchronisation h had to make and
\* that left no annotation on the target.
GroupsNotWritten(h) ==
  {x \in InformationGroups :
     /\ DOMAIN PresentFields(x.group) # {}
     /\ \A a \in CreatedOnTarget(h) : a.ns # GroupNamespace(x)}
\* The removal step of h reported an error: with replace, the target was
\* not found.
RemovalError(h) == replace /\ ~ObjectExists(target_type, h.target_id)

\* C30: of every finished synchronisation the status is 'error' exactly when
\* replace was asked and the removal reported an error, and then nothing was
\* written and no well was counted; otherwise it is 'success' exactly when
\* every information group with a present field was written on the target
\* and 'partial_success' when one was not, whatever the wells did.
C30_StatusFromContainerWrites ==
  \A h \in Finished :
    /\ h.summary.status \in {"success", "partial_success", "error"}
    /\ h.summary.status = "error" <=> RemovalError(h)
    /\ RemovalError(h) =>
         /\ h.after = h.before
         /\ h.summary.wells_processed = 0 /\ h.plates = <<>>
    /\ ~RemovalError(h) =>
         /\ h.summary.status = "success" <=> GroupsNotWritten(h) = {}
         /\ h.summary.status = "partial_success" <=> GroupsNotWritten(h) # {}

\* C30 witness: a synchronisation wrote every information group on the
\* target, a write on a matched well failed and wells were counted as
\* failed; its status is 'success'.
C30_Witness ==
  \E h \in Finished :
    /\ h.summary.status = "success"
    /\ CreatedOnTarget(h) # {}
    /\ h.summary.wells_failed > 0
    /\ \E p \in Range(h.plates) : p.write_failed # {}

=============================================================================
